---- MODULE Spec2Model ----
(***************************************************************************)
(* Market simulation engine of the WallStreet repository:                  *)
(*   src/market_simulation.py   MarketSimulation (day loop, market state,  *)
(*                              events, regulation, interactions, prices)  *)
(*   src/utils/base_agent.py    FinancialAgent (connections, transfers)    *)
(*   src/config/simulation_config.py   the configuration tables            *)
(*                                                                         *)
(* Numbers.  Python floats are modelled as fixed-point integers:           *)
(*   - MarketState fields, event magnitudes and normal draws are in        *)
(*     millionths (0.02 is 20000, 1.0 is 1000000);                         *)
(*   - prices are in hundredths (100.0 is 10000), price factors in         *)
(*     ten-thousandths (1.0 is 10000);                                     *)
(*   - balances and amounts are whole money units.                         *)
(* Random draws (np.random.normal, random.random, random.choice,           *)
(* random.uniform) are nondeterministic choices from finite sets.          *)
(*                                                                         *)
(* Strings.  Entity names and descriptions are ASCII stand-ins for the     *)
(* Chinese literals of the source ("central_bank" for the central bank     *)
(* name tested at market_simulation.py:151 and :294, "stock_exchange" for  *)
(* the exchange name tested at :164).                                      *)
(***************************************************************************)
EXTENDS Integers, Sequences, FiniteSets, TLC

VARIABLES
    pc,                   \* position of run_simulation
    simulation_days,      \* self.simulation_days
    day_iter,             \* position of the iterator range(self.simulation_days)
    current_day,          \* self.current_day
    current_date,         \* self.current_date, in days since self.start_date
    market_state,         \* self.market_state
    asset_prices,         \* self.asset_prices: asset class -> price sequence
    agents,               \* self.agents in insertion order: <<[name, agent_type]>>
    balance,              \* agent.balance, by agent id
    connections,          \* agent.connections, by agent id (a list of ids)
    transaction_history,  \* agent.transaction_history, by agent id
    transactions,         \* self.transactions, the global ledger
    events,               \* self.events, the event log
    last_transfer,        \* the last transfer_funds call and what it returned
    next_oid,             \* identity of the next transaction object created
    config,               \* SIMULATION_PARAMS["random_seed"] and ASSET_CLASSES
    hash_salt,            \* the process's str hash randomisation (PYTHONHASHSEED)
    np_state,             \* numpy's global generator: its seed and draws made
    calls,                \* the MarketUtils calls made directly, with results
    init_error            \* the exception MarketSimulation.__init__ raised, if any

vars == <<pc, simulation_days, day_iter, current_day, current_date,
          market_state, asset_prices, agents, balance, connections,
          transaction_history, transactions, events, last_transfer,
          next_oid, config, hash_salt, np_state, calls, init_error>>

marketVars == <<market_state, asset_prices, events>>
agentVars  == <<balance, connections, transaction_history, transactions,
                last_transfer, next_oid>>
loopVars   == <<simulation_days, day_iter, current_day, current_date>>
libVars    == <<config, hash_salt, calls, init_error>>

----------------------------------------------------------------------------
(* Bounds of the model *)

\* largest configured simulation_days explored
MaxDays == 2

\* number of direct transfer_funds calls explored in the agent specification
MaxCalls == 3

\* number of direct MarketUtils calls explored in the library specification
MaxLibCalls == 2

\* largest entity catalogue explored in the catalogue-size specification
MaxEntities == 4

----------------------------------------------------------------------------
(* Small helpers *)

Max(a, b) == IF a >= b THEN a ELSE b
Min(a, b) == IF a <= b THEN a ELSE b
Abs(a) == IF a >= 0 THEN a ELSE -a

\* Python's `x in list`
InList(x, s) == \E i \in 1..Len(s) : s[i] = x

\* number of occurrences of x in list s
Count(x, s) == Cardinality({i \in 1..Len(s) : s[i] = x})

RECURSIVE SumOver(_, _)
SumOver(f, S) ==
    IF S = {} THEN 0
    ELSE LET x == CHOOSE y \in S : TRUE IN f[x] + SumOver(f, S \ {x})

Ids == 1..Len(agents)

----------------------------------------------------------------------------
(* Configuration tables, src/config/simulation_config.py *)

\* FINANCIAL_ENTITIES, flattened in dict order (entity type by entity type).
\* An excerpt of the catalogue: two regulators and one financial
\* institution.  Balances are the catalogue's divided by 10^7.
FINANCIAL_ENTITIES ==
    << [name |-> "central_bank", agent_type |-> "regulators",
        initial_balance |-> 100000],
       [name |-> "treasury", agent_type |-> "regulators",
        initial_balance |-> 500000],
       [name |-> "large_commercial_bank",
        agent_type |-> "financial_institutions",
        initial_balance |-> 50000] >>

\* MARKET_PARAMS and the literals of MarketSimulation.__init__
InitialMarketState ==
    [ interest_rate     |-> 20000,
      inflation_rate    |-> 30000,
      market_volatility |-> 150000,
      liquidity_factor  |-> 1000000,
      market_sentiment  |-> 0,
      economic_growth   |-> 20000,
      unemployment_rate |-> 50000 ]

\* ASSET_CLASSES (an excerpt: one asset class)
ASSET_CLASSES == {"stocks"}

\* The configuration __init__ reads besides the entity catalogue: the seed
\* and, per asset class in dict order, its volatility and its
\* expected_return / 252, both in thousandths.
DefaultConfig ==
    [ random_seed   |-> 42,
      asset_classes |-> << [name |-> "stocks", volatility |-> 200,
                            drift |-> 0] >> ]

\* EVENT_PARAMS["random_event_probability"] = 0.05, in hundredths
random_event_probability == 5

\* REGULATORY_PARAMS
stress_test_frequency == 30
reporting_frequency == 90

----------------------------------------------------------------------------
(* FinancialAgent, src/utils/base_agent.py *)

\* add_connection without the call back on the other agent
add_connection_one_way(conns, self, other_agent) ==
    IF ~InList(other_agent, conns[self])
    THEN [conns EXCEPT ![self] = Append(@, other_agent)]
    ELSE conns

\* add_connection: self.connections gets other_agent unless it is there,
\* and then the other side adds self the same way.
RECURSIVE add_connection(_, _, _)
add_connection(conns, self, other_agent) ==
    IF ~InList(other_agent, conns[self])
    THEN LET c1 == [conns EXCEPT ![self] = Append(@, other_agent)]
         IN  IF ~InList(self, c1[other_agent])
             THEN add_connection(c1, other_agent, self)
             ELSE c1
    ELSE conns

NoTransaction ==
    [oid |-> 0, from |-> 0, to |-> 0, amount |-> 0, description |-> ""]

\* transfer_funds debiting the sender without crediting the recipient
transfer_funds_debit_only(bal, hist, oid, self, recipient, amount, description) ==
    IF amount <= 0
    THEN [success |-> FALSE, message |-> "amount_must_be_positive",
          transaction |-> NoTransaction, balance |-> bal, history |-> hist]
    ELSE IF bal[self] < amount
    THEN [success |-> FALSE, message |-> "insufficient_balance",
          transaction |-> NoTransaction, balance |-> bal, history |-> hist]
    ELSE LET b1 == [bal EXCEPT ![self] = @ - amount]
             transaction == [oid |-> oid, from |-> self, to |-> recipient,
                             amount |-> amount, description |-> description]
             h1 == [hist EXCEPT ![self] = Append(@, transaction)]
             h2 == [h1 EXCEPT ![recipient] = Append(@, transaction)]
         IN  [success |-> TRUE, message |-> "",
              transaction |-> transaction, balance |-> b1, history |-> h2]

\* transfer_funds without the balance check
transfer_funds_no_balance_check(bal, hist, oid, self, recipient, amount, description) ==
    IF amount <= 0
    THEN [success |-> FALSE, message |-> "amount_must_be_positive",
          transaction |-> NoTransaction, balance |-> bal, history |-> hist]
    ELSE LET b1 == [bal EXCEPT ![self] = @ - amount]
             b2 == [b1 EXCEPT ![recipient] = @ + amount]
             transaction == [oid |-> oid, from |-> self, to |-> recipient,
                             amount |-> amount, description |-> description]
             h1 == [hist EXCEPT ![self] = Append(@, transaction)]
             h2 == [h1 EXCEPT ![recipient] = Append(@, transaction)]
         IN  [success |-> TRUE, message |-> "",
              transaction |-> transaction, balance |-> b2, history |-> h2]

\* transfer_funds checking the balance before the amount
transfer_funds_balance_first(bal, hist, oid, self, recipient, amount, description) ==
    IF bal[self] < amount
    THEN [success |-> FALSE, message |-> "insufficient_balance",
          transaction |-> NoTransaction, balance |-> bal, history |-> hist]
    ELSE IF amount <= 0
    THEN [success |-> FALSE, message |-> "amount_must_be_positive",
          transaction |-> NoTransaction, balance |-> bal, history |-> hist]
    ELSE LET b1 == [bal EXCEPT ![self] = @ - amount]
             b2 == [b1 EXCEPT ![recipient] = @ + amount]
             transaction == [oid |-> oid, from |-> self, to |-> recipient,
                             amount |-> amount, description |-> description]
             h1 == [hist EXCEPT ![self] = Append(@, transaction)]
             h2 == [h1 EXCEPT ![recipient] = Append(@, transaction)]
         IN  [success |-> TRUE, message |-> "",
              transaction |-> transaction, balance |-> b2, history |-> h2]

\* transfer_funds(recipient, amount, description) called on `self`, given
\* the balances bal and the histories hist.  The transaction dict is one
\* object appended to both histories; oid stands for its identity.  The
\* timestamp comes from autogen.get_utc_time(), a call into the external
\* autogen package that is taken to return; no code reads the field, and
\* it is not modelled.
\* Returns the (success, result) pair together with the new balances and
\* histories.
transfer_funds(bal, hist, oid, self, recipient, amount, description) ==
    IF amount <= 0
    THEN [success |-> FALSE, message |-> "amount_must_be_positive",
          transaction |-> NoTransaction, balance |-> bal, history |-> hist]
    ELSE IF bal[self] < amount
    THEN [success |-> FALSE, message |-> "insufficient_balance",
          transaction |-> NoTransaction, balance |-> bal, history |-> hist]
    ELSE LET b1 == [bal EXCEPT ![self] = @ - amount]
             b2 == [b1 EXCEPT ![recipient] = @ + amount]
             transaction == [oid |-> oid, from |-> self, to |-> recipient,
                             amount |-> amount, description |-> description]
             h1 == [hist EXCEPT ![self] = Append(@, transaction)]
             h2 == [h1 EXCEPT ![recipient] = Append(@, transaction)]
         IN  [success |-> TRUE, message |-> "",
              transaction |-> transaction, balance |-> b2, history |-> h2]

----------------------------------------------------------------------------
(* MarketSimulation.__init__ and its helpers, src/market_simulation.py *)

\* first agent, in registry order, with the given name; 0 for None
FindByName(ags, name) ==
    IF \E i \in 1..Len(ags) : ags[i].name = name
    THEN CHOOSE i \in 1..Len(ags) :
            /\ ags[i].name = name
            /\ \A j \in 1..(i - 1) : ags[j].name # name
    ELSE 0

\* `for agent in self.agents.values(): if agent.agent_type in types:
\*      hub.add_connection(agent)`, from agent number i on
RECURSIVE ConnectAll(_, _, _, _, _)
ConnectAll(conns, ags, hub, types, i) ==
    IF i > Len(ags) THEN conns
    ELSE ConnectAll(IF ags[i].agent_type \in types
                    THEN add_connection(conns, hub, i)
                    ELSE conns,
                    ags, hub, types, i + 1)

\* _establish_connections
establish_connections(ags) ==
    LET none == [i \in 1..Len(ags) |-> << >>]
        central_bank == FindByName(ags, "central_bank")
        c1 == IF central_bank # 0
              THEN ConnectAll(none, ags, central_bank,
                              {"financial_institutions"}, 1)
              ELSE none
        exchange == FindByName(ags, "stock_exchange")
    IN  IF exchange # 0
        THEN ConnectAll(c1, ags, exchange,
                        {"financial_institutions", "direct_participants"}, 1)
        ELSE c1

\* _initialize_agents / _create_agent: the registry, in insertion order
initialize_agents(entities) ==
    [i \in 1..Len(entities) |->
        [name |-> entities[i].name, agent_type |-> entities[i].agent_type]]

\* MarketUtils.generate_price_series, the values computed at
\* market_utils.py:45-46: initial_price * (normal(drift, volatility, days)
\* + 1).cumprod().  `returns` is the sequence of the `days` multipliers
\* normal(...) + 1, in thousandths.
RECURSIVE cumprod(_, _, _)
cumprod(price, returns, i) ==
    IF i > Len(returns) THEN << >>
    ELSE LET p == (price * returns[i]) \div 1000
         IN  <<p>> \o cumprod(p, returns, i + 1)

generate_price_series(initial_price, days, returns) ==
    cumprod(initial_price, SubSeq(returns, 1, days), 1)

----------------------------------------------------------------------------
(* numpy, pandas and str hashing, as MarketUtils and __init__ use them *)

\* random_seed=None.  numpy's seeds are 0 .. 2^32 - 1, so -1 is free to
\* stand for None.
None == -1

\* hash(str).  CPython keys the string hash with a salt chosen when the
\* process starts (PYTHONHASHSEED), so hash(name) is fixed within a process
\* and differs from process to process.  The keyed function is not
\* modelled: NameCode and the multiplier stand for it, and only the
\* dependence on the salt matters.
NameCode(name) ==
    CASE name = "stocks" -> 11
      [] name = "bonds"  -> 23
      [] OTHER           -> 37

hash(salt, name) == salt * 389 + NameCode(name)

\* np.random.seed(seed): the global generator restarts the seed's stream
np_random_seed(seed) == [seed |-> seed, pos |-> 0]

\* the standard normal draw at a position of a seed's stream, in whole
\* standard deviations: a fixed function of the seed and the position
standard_normal(seed, pos) == ((seed * 3 + pos * 7) % 5) - 2

\* np.random.normal(loc, scale, size): ValueError for a negative scale or
\* a negative size, before any draw is made
np_random_normal(np, loc, scale, size) ==
    IF scale < 0 \/ size < 0
    THEN [np |-> np, outcome |-> "ValueError", value |-> << >>]
    ELSE [np |-> [np EXCEPT !.pos = @ + size],
          outcome |-> "returned",
          value |-> [i \in 1..size |->
                        loc + scale * standard_normal(np.seed, np.pos + i - 1)]]

\* pd.date_range(start=end_date - timedelta(days=days), end=end_date,
\* freq='D'): both end points belong to the range, which has days + 1
\* dates, and none when the start is after the end
date_range(days) == IF days >= 0 THEN days + 1 ELSE 0

\* pd.Series(values, index=date_range) raises ValueError unless there are
\* as many values as dates.  `index` is the number of dates.
pd_Series(values, index) ==
    IF Len(values) = index
    THEN [outcome |-> "returned", value |-> values]
    ELSE [outcome |-> "ValueError", value |-> << >>]

\* random_seed + hash(asset_class) % 1000, the seed __init__ passes to
\* generate_price_series for an asset class
asset_seed(cfg, salt, asset_class) ==
    cfg.random_seed + (hash(salt, asset_class) % 1000)

\* MarketUtils.generate_price_series as a whole call.  volatility and drift
\* are in thousandths, prices in hundredths.  The result holds the global
\* generator the call leaves behind.
MarketUtils_generate_price_series(np, initial_price, days, volatility, drift, random_seed) ==
    LET np1 == IF random_seed # None THEN np_random_seed(random_seed) ELSE np
        index == date_range(days)
        normal == np_random_normal(np1, drift, volatility, days)
    IN  IF normal.outcome # "returned"
        THEN [np |-> normal.np, outcome |-> normal.outcome, value |-> << >>]
        ELSE LET returns == [i \in 1..days |-> normal.value[i] + 1000]
                 price_series ==
                     generate_price_series(initial_price, days, returns)
                 series == pd_Series(price_series, index)
             IN  [np |-> normal.np, outcome |-> series.outcome,
                  value |-> series.value]

\* the loop of simulate_interest_rates, n iterations to go.  Rates and
\* volatility are in millionths, mean_reversion in hundredths.
RECURSIVE vasicek(_, _, _, _, _, _)
vasicek(np, rates, n, volatility, mean_reversion, long_term_mean) ==
    IF n <= 0 THEN [np |-> np, rates |-> rates]
    ELSE LET last == rates[Len(rates)]
             dr == (mean_reversion * (long_term_mean - last)) \div 100
                   + volatility * standard_normal(np.seed, np.pos)
             new_rate == Max(1000, last + dr)
         IN  vasicek([np EXCEPT !.pos = @ + 1], Append(rates, new_rate),
                     n - 1, volatility, mean_reversion, long_term_mean)

\* MarketUtils.simulate_interest_rates as a whole call
MarketUtils_simulate_interest_rates(np, initial_rate, days, volatility, mean_reversion, long_term_mean, random_seed) ==
    LET np1 == IF random_seed # None THEN np_random_seed(random_seed) ELSE np
        index == date_range(days)
        loop == vasicek(np1, <<initial_rate>>, days - 1, volatility,
                        mean_reversion, long_term_mean)
        series == pd_Series(loop.rates, index)
    IN  [np |-> loop.np, outcome |-> series.outcome, value |-> series.value]

\* the prices simulate_market_shock computes from the shock index on.
\* Prices are in hundredths, shock_magnitude in thousandths,
\* recovery_strength in hundredths; factors are in thousandths.
shocked_price(prices, shock_idx, i, shock_magnitude, recovery_days, recovery_strength) ==
    IF i = shock_idx
    THEN (prices[i] * (1000 + shock_magnitude)) \div 1000
    ELSE LET days_since_shock == i - shock_idx
             recovery_factor ==
                 Min(1000, (days_since_shock * recovery_strength * 10)
                               \div recovery_days)
             remaining_shock ==
                 (shock_magnitude * (1000 - recovery_factor)) \div 1000
         IN  (prices[i] * (1000 + remaining_shock)) \div 1000

\* simulate_market_shock writing into the series it was given
simulate_market_shock_in_place(prices, shock_magnitude, recovery_days, recovery_strength) ==
    IF prices = << >>
    THEN [outcome |-> "IndexError", value |-> << >>, prices |-> prices]
    ELSE LET shock_idx == Max(1, Min(Len(prices), Len(prices) - recovery_days))
             shocked_prices ==
                 [i \in 1..Len(prices) |->
                     IF i < shock_idx THEN prices[i]
                     ELSE shocked_price(prices, shock_idx, i, shock_magnitude,
                                        recovery_days, recovery_strength)]
         IN  [outcome |-> "returned", value |-> shocked_prices,
              prices |-> shocked_prices]

\* MarketUtils.simulate_market_shock on a series with a daily index, by
\* position (1 is the first entry).  The shock index is the position
\* nearest to recovery_days before the last date, so it stops at the first
\* and at the last entry; an empty series has no last date.  The result
\* also holds the input series as the call leaves it.
simulate_market_shock(prices, shock_magnitude, recovery_days, recovery_strength) ==
    IF prices = << >>
    THEN [outcome |-> "IndexError", value |-> << >>, prices |-> prices]
    ELSE LET shock_idx == Max(1, Min(Len(prices), Len(prices) - recovery_days))
             shocked_prices ==
                 [i \in 1..Len(prices) |->
                     IF i < shock_idx THEN prices[i]
                     ELSE shocked_price(prices, shock_idx, i, shock_magnitude,
                                        recovery_days, recovery_strength)]
         IN  [outcome |-> "returned", value |-> shocked_prices,
              prices |-> prices]

\* sum(vol for _, vol in orders)
RECURSIVE volume(_)
volume(orders) ==
    IF orders = << >> THEN 0 ELSE Head(orders)[2] + volume(Tail(orders))

\* MarketUtils.calculate_market_liquidity.  An order is <<price, volume>>,
\* prices in whole units; the quotient is in thousandths.  With no bid the
\* best bid is 0; with no ask the best ask is infinite and so is the spread.
calculate_market_liquidity(order_book) ==
    LET bids == order_book.bids
        asks == order_book.asks
        bid_volume == volume(bids)
        ask_volume == volume(asks)
        best_bid == IF bids # << >> THEN bids[1][1] ELSE 0
    IN  IF asks = << >>
        THEN [inf |-> FALSE, value |-> 0]
        ELSE LET spread == asks[1][1] - best_bid
             IN  IF spread > 0
                 THEN [inf |-> FALSE,
                       value |-> ((bid_volume + ask_volume) * 1000) \div spread]
                 ELSE [inf |-> TRUE, value |-> 0]

----------------------------------------------------------------------------
(* The daily sub-steps, src/market_simulation.py *)

\* _update_market_state: every field gets its normal draw and is clamped;
\* economic_growth is not clamped.  `noise` holds the seven draws.
update_market_state(ms, noise) ==
    [ interest_rate     |-> Max(1000, ms.interest_rate + noise.interest_rate),
      inflation_rate    |-> Max(0, ms.inflation_rate + noise.inflation_rate),
      market_volatility |->
          Max(10000, ms.market_volatility + noise.market_volatility),
      liquidity_factor  |->
          Max(500000, Min(2000000,
                          ms.liquidity_factor + noise.liquidity_factor)),
      market_sentiment  |->
          Max(-1000000, Min(1000000,
                            ms.market_sentiment + noise.market_sentiment)),
      economic_growth   |-> ms.economic_growth + noise.economic_growth,
      unemployment_rate |->
          Max(10000, Min(200000,
                         ms.unemployment_rate + noise.unemployment_rate)) ]

\* the five categories of random.choice at market_simulation.py:238-244
EventTypes ==
    {"economic_news", "political_event", "natural_disaster",
     "technology_breakthrough", "regulatory_change"}

\* the category-specific effect using the signed magnitude where the code
\* takes its absolute value
event_effect_signed(ms, event_type, m) ==
    CASE event_type = "economic_news" ->
            [ms EXCEPT !.market_sentiment = @ + m * 2,
                       !.economic_growth = @ + m \div 100]
      [] event_type = "political_event" ->
            [ms EXCEPT !.market_volatility = @ + m \div 20,
                       !.market_sentiment = @ + m]
      [] event_type = "natural_disaster" ->
            [ms EXCEPT !.market_sentiment = @ - m \div 2,
                       !.economic_growth = @ - m \div 200]
      [] event_type = "technology_breakthrough" ->
            [ms EXCEPT !.market_sentiment = @ + m,
                       !.economic_growth = @ + m \div 500]
      [] event_type = "regulatory_change" ->
            [ms EXCEPT !.market_volatility = @ + m \div 50]
      [] OTHER -> ms

\* the category-specific effect, market_simulation.py:258-271
event_effect(ms, event_type, m) ==
    CASE event_type = "economic_news" ->
            [ms EXCEPT !.market_sentiment = @ + m * 2,
                       !.economic_growth = @ + m \div 100]
      [] event_type = "political_event" ->
            [ms EXCEPT !.market_volatility = @ + Abs(m) \div 20,
                       !.market_sentiment = @ + m]
      [] event_type = "natural_disaster" ->
            [ms EXCEPT !.market_sentiment = @ - Abs(m) \div 2,
                       !.economic_growth = @ - Abs(m) \div 200]
      [] event_type = "technology_breakthrough" ->
            [ms EXCEPT !.market_sentiment = @ + Abs(m),
                       !.economic_growth = @ + Abs(m) \div 500]
      [] event_type = "regulatory_change" ->
            [ms EXCEPT !.market_volatility = @ + m \div 50]
      [] OTHER -> ms

\* an event step that forgets the re-clamp
event_clamp_missing(ms) == ms

\* the re-clamp after an event, market_simulation.py:274-275
event_clamp(ms) ==
    [ms EXCEPT !.market_sentiment = Max(-1000000, Min(1000000, @)),
               !.market_volatility = Max(10000, @)]

\* _process_events appending the event record twice
process_events_append_twice(ms, evs, day, date, r, event_type, event_magnitude) ==
    IF r < random_event_probability
    THEN LET e == [day |-> day, date |-> date, type |-> event_type,
                   magnitude |-> event_magnitude]
         IN  [ market_state |->
                   event_clamp(event_effect(ms, event_type, event_magnitude)),
               events |-> Append(Append(evs, e), e) ]
    ELSE [ market_state |-> ms, events |-> evs ]

\* _process_events recording the doubled magnitude it applies to sentiment
process_events_scaled_magnitude(ms, evs, day, date, r, event_type, event_magnitude) ==
    IF r < random_event_probability
    THEN [ market_state |->
               event_clamp(event_effect(ms, event_type, event_magnitude)),
           events |-> Append(evs, [day |-> day, date |-> date,
                                   type |-> event_type,
                                   magnitude |-> event_magnitude * 2]) ]
    ELSE [ market_state |-> ms, events |-> evs ]

\* _process_events, given the draws: r is random.random() in hundredths,
\* event_type the random.choice, event_magnitude the random.uniform.
\* Returns the new market state and event log.
process_events(ms, evs, day, date, r, event_type, event_magnitude) ==
    IF r < random_event_probability
    THEN [ market_state |->
               event_clamp(event_effect(ms, event_type, event_magnitude)),
           events |-> Append(evs, [day |-> day, date |-> date,
                                   type |-> event_type,
                                   magnitude |-> event_magnitude]) ]
    ELSE [ market_state |-> ms, events |-> evs ]

\* the interest-rate rule without the 0.0025 cap on a change
interest_rate_rule_uncapped(ms) ==
    IF ms.inflation_rate > 40000
    THEN [ms EXCEPT !.interest_rate = @ + (ms.inflation_rate - 20000) \div 10]
    ELSE IF ms.economic_growth < 10000
    THEN [ms EXCEPT !.interest_rate =
             Max(1000, @ - (20000 - ms.economic_growth) \div 10)]
    ELSE ms

\* the interest-rate rule with two independent tests instead of if/elif
interest_rate_rule_both_branches(ms) ==
    LET raised ==
            IF ms.inflation_rate > 40000
            THEN [ms EXCEPT !.interest_rate =
                     @ + Min(2500, (ms.inflation_rate - 20000) \div 10)]
            ELSE ms
    IN  IF ms.economic_growth < 10000
        THEN [raised EXCEPT !.interest_rate =
                 Max(1000, @ - Min(2500, (20000 - ms.economic_growth) \div 10))]
        ELSE raised

\* the interest-rate rule, market_simulation.py:300-309
interest_rate_rule(ms) ==
    IF ms.inflation_rate > 40000
    THEN LET rate_change == Min(2500, (ms.inflation_rate - 20000) \div 10)
         IN  [ms EXCEPT !.interest_rate = @ + rate_change]
    ELSE IF ms.economic_growth < 10000
    THEN LET rate_change == Min(2500, (20000 - ms.economic_growth) \div 10)
         IN  [ms EXCEPT !.interest_rate = Max(1000, @ - rate_change)]
    ELSE ms

\* a regulatory step that applies the rule on every day
execute_regulatory_activities_every_day(ms, ags, day) ==
    IF FindByName(ags, "central_bank") # 0
    THEN interest_rate_rule(ms)
    ELSE ms

\* _execute_regulatory_activities: the stress-test and reporting cadences
\* only log; every 30 days the central bank, if there is one, applies the
\* interest-rate rule.
execute_regulatory_activities(ms, ags, day) ==
    IF day % 30 = 0 /\ FindByName(ags, "central_bank") # 0
    THEN interest_rate_rule(ms)
    ELSE ms

\* a price adjustment whose sentiment factor is 1 + sentiment instead of
\* 1 + sentiment * 0.01
adjusted_price_full_sentiment(current_price, ms) ==
    LET sentiment_factor == 10000 + ms.market_sentiment \div 100
        volatility_factor == 10000 + (ms.market_volatility - 150000) \div 1000
    IN  (((current_price * sentiment_factor) \div 10000) * volatility_factor)
            \div 10000

\* _update_asset_prices: the price at index current_day of every series is
\* multiplied by the sentiment factor and the volatility factor.
adjusted_price(current_price, ms) ==
    LET sentiment_factor == 10000 + ms.market_sentiment \div 10000
        volatility_factor == 10000 + (ms.market_volatility - 150000) \div 1000
    IN  (((current_price * sentiment_factor) \div 10000) * volatility_factor)
            \div 10000

update_asset_prices(prices, ms, day) ==
    [a \in DOMAIN prices |->
        [prices[a] EXCEPT ![day + 1] = adjusted_price(@, ms)]]

\* one attempt per agent instead of one per two agents
num_interactions_per_agent(ags) == Min(10, Len(ags))

\* num_interactions = min(10, len(self.agents) // 2)
num_interactions(ags) == Min(10, Len(ags) \div 2)

\* an amount drawn from [0, balance] instead of [0, balance * 0.01]
drawn_amount_up_to_balance(bal, u) == (bal * u) \div 100

\* amount = random.uniform(0, agent1.balance * 0.01), u being the uniform
\* draw in hundredths of the interval
drawn_amount(bal, u) == (bal * u) \div 10000

\* a loop body without the test `agent2 in agent1.connections`
interaction_unconnected_too(st, conns, a) ==
    IF /\ a.interaction_type = "transaction"
       /\ st.balance[a.agent1] > 0
    THEN LET amount == drawn_amount(st.balance[a.agent1], a.u)
             r == transfer_funds(st.balance, st.history, st.next_oid,
                                 a.agent1, a.agent2, amount,
                                 "random_transaction")
         IN  [ balance |-> r.balance,
               history |-> r.history,
               transactions |-> IF r.success
                                THEN Append(st.transactions, r.transaction)
                                ELSE st.transactions,
               last_transfer |->
                   [self |-> a.agent1, recipient |-> a.agent2,
                    amount |-> amount, success |-> r.success,
                    message |-> r.message, transaction |-> r.transaction],
               next_oid |-> IF r.success THEN st.next_oid + 1
                            ELSE st.next_oid ]
    ELSE st

\* a loop body that appends the result to the ledger whether or not the
\* transfer succeeded
interaction_always_records(st, conns, a) ==
    IF /\ InList(a.agent2, conns[a.agent1])
       /\ a.interaction_type = "transaction"
       /\ st.balance[a.agent1] > 0
    THEN LET amount == drawn_amount(st.balance[a.agent1], a.u)
             r == transfer_funds(st.balance, st.history, st.next_oid,
                                 a.agent1, a.agent2, amount,
                                 "random_transaction")
         IN  [ balance |-> r.balance,
               history |-> r.history,
               transactions |-> Append(st.transactions, r.transaction),
               last_transfer |->
                   [self |-> a.agent1, recipient |-> a.agent2,
                    amount |-> amount, success |-> r.success,
                    message |-> r.message, transaction |-> r.transaction],
               next_oid |-> IF r.success THEN st.next_oid + 1
                            ELSE st.next_oid ]
    ELSE st

\* one pass of the loop body of _execute_agent_interactions, given its
\* draws a = [agent1, agent2, interaction_type, u]; st holds the balances,
\* histories, ledger, last transfer and next object identity.
interaction(st, conns, a) ==
    IF /\ InList(a.agent2, conns[a.agent1])
       /\ a.interaction_type = "transaction"
       /\ st.balance[a.agent1] > 0
    THEN LET amount == drawn_amount(st.balance[a.agent1], a.u)
             r == transfer_funds(st.balance, st.history, st.next_oid,
                                 a.agent1, a.agent2, amount,
                                 "random_transaction")
         IN  [ balance |-> r.balance,
               history |-> r.history,
               transactions |-> IF r.success
                                THEN Append(st.transactions, r.transaction)
                                ELSE st.transactions,
               last_transfer |->
                   [self |-> a.agent1, recipient |-> a.agent2,
                    amount |-> amount, success |-> r.success,
                    message |-> r.message, transaction |-> r.transaction],
               next_oid |-> IF r.success THEN st.next_oid + 1
                            ELSE st.next_oid ]
    ELSE st

\* _execute_agent_interactions: the loop over the attempts
RECURSIVE execute_agent_interactions(_, _, _, _)
execute_agent_interactions(st, conns, attempts, i) ==
    IF i > Len(attempts) THEN st
    ELSE execute_agent_interactions(interaction(st, conns, attempts[i]),
                                    conns, attempts, i + 1)

----------------------------------------------------------------------------
(* The random draws explored *)

\* The seven np.random.normal draws of one _update_market_state call:
\* a day on which every field falls far, a day without movement and a day
\* on which every field rises far.
LowDraw ==
    [ interest_rate |-> -19500, inflation_rate |-> -30010,
      market_volatility |-> -145000, liquidity_factor |-> -600000,
      market_sentiment |-> -950000, economic_growth |-> -10010,
      unemployment_rate |-> -45000 ]

ZeroDraw ==
    [ interest_rate |-> 0, inflation_rate |-> 0,
      market_volatility |-> 0, liquidity_factor |-> 0,
      market_sentiment |-> 0, economic_growth |-> 0,
      unemployment_rate |-> 0 ]

HighDraw ==
    [ interest_rate |-> 2500, inflation_rate |-> 10010,
      market_volatility |-> 5000, liquidity_factor |-> 1100000,
      market_sentiment |-> 950000, economic_growth |-> 100,
      unemployment_rate |-> 160000 ]

NormalDraws == {LowDraw, ZeroDraw, HighDraw}

\* random.random(), in hundredths
RandomDraws == {4, 5}

\* random.uniform(-0.1, 0.1), in millionths
Magnitudes == {-100000, 100000}

\* random.uniform(0, x) as a fraction of the interval, in hundredths
UniformDraws == {0, 100}

\* normal(drift, volatility) + 1 for the price series, in thousandths
NormalReturns == {980, 1020}

\* the return paths explored for a series of `days` entries
ReturnPaths(days) == {[i \in 1..days |-> r] : r \in NormalReturns}

\* the draws of one interaction attempt
AttemptDraws ==
    { [agent1 |-> a1, agent2 |-> a2, interaction_type |-> t, u |-> u] :
        a1 \in Ids, a2 \in Ids, t \in {"message", "transaction"},
        u \in UniformDraws }

\* agent2 = random.choice([a for a in agents if a.id != agent1.id])
ValidAttempt(a) == a.agent2 # a.agent1

\* the amounts of the direct transfer_funds calls explored
TransferAmounts == {-50, 0, 50, 150}

----------------------------------------------------------------------------
(* run_simulation, src/market_simulation.py:176-207 *)

\* the regulatory step called before the event step
SubSteps_regulation_first ==
    << "update_market_state", "execute_regulatory_activities",
       "process_events", "execute_agent_interactions",
       "update_asset_prices", "perform_settlement", "record_state" >>

\* the seven sub-steps of a day, in the order run_simulation calls them
SubSteps ==
    << "update_market_state", "process_events",
       "execute_regulatory_activities", "execute_agent_interactions",
       "update_asset_prices", "perform_settlement", "record_state" >>

StepIndex(p) == CHOOSE i \in 1..Len(SubSteps) : SubSteps[i] = p

\* where run_simulation is after the sub-step p returns
AfterStep(p) ==
    IF StepIndex(p) < Len(SubSteps) THEN SubSteps[StepIndex(p) + 1]
    ELSE "for_day"

\* no transfer_funds call has been made yet
NoTransfer ==
    [self |-> 0, recipient |-> 0, amount |-> 0, success |-> FALSE,
     message |-> "", transaction |-> NoTransaction]

\* The state MarketSimulation.__init__ builds from the configuration.
\* asset_prices holds, per asset class, the values generate_price_series
\* computes (market_utils.py:45-46); the date index it attaches to them
\* (market_utils.py:40-42, 48) is not read by the day loop, which addresses
\* the series by position (.iloc), and is not part of this state.
InitWith(entities, days_choices) ==
    /\ pc = "not_started"
    /\ simulation_days \in days_choices
    /\ day_iter = 0
    /\ current_day = 0
    /\ current_date = 0
    /\ market_state = InitialMarketState
    /\ \E returns \in [ASSET_CLASSES -> ReturnPaths(simulation_days)] :
          asset_prices =
              [a \in ASSET_CLASSES |->
                  generate_price_series(10000, simulation_days, returns[a])]
    /\ agents = initialize_agents(entities)
    /\ balance = [i \in 1..Len(entities) |-> entities[i].initial_balance]
    /\ connections = establish_connections(initialize_agents(entities))
    /\ transaction_history = [i \in 1..Len(entities) |-> << >>]
    /\ transactions = << >>
    /\ events = << >>
    /\ last_transfer = NoTransfer
    /\ next_oid = 1
    /\ config = DefaultConfig
    /\ hash_salt = 0
    /\ np_state = [seed |-> asset_seed(DefaultConfig, 0, "stocks"),
                   pos |-> simulation_days]
    /\ calls = << >>
    /\ init_error = ""

Init == InitWith(FINANCIAL_ENTITIES, 0..MaxDays)

\* run_simulation is called
RunSimulation ==
    /\ pc = "not_started"
    /\ pc' = "for_day"
    /\ UNCHANGED <<loopVars, marketVars, agents, libVars, np_state, agentVars>>

\* a loop over range(self.simulation_days - 1)
ForDay_one_day_short ==
    /\ pc = "for_day"
    /\ IF day_iter < simulation_days - 1
       THEN /\ current_day' = day_iter
            /\ current_date' = day_iter
            /\ day_iter' = day_iter + 1
            /\ pc' = "update_market_state"
       ELSE /\ pc' = "completed"
            /\ UNCHANGED <<current_day, current_date, day_iter>>
    /\ UNCHANGED <<simulation_days, marketVars, agents, libVars, np_state, agentVars>>

\* a loop that leaves the day counter at the number of days done
ForDay_counts_days_done ==
    /\ pc = "for_day"
    /\ IF day_iter < simulation_days
       THEN /\ current_day' = day_iter
            /\ current_date' = day_iter
            /\ day_iter' = day_iter + 1
            /\ pc' = "update_market_state"
       ELSE /\ pc' = "completed"
            /\ current_day' = day_iter
            /\ UNCHANGED <<current_date, day_iter>>
    /\ UNCHANGED <<simulation_days, marketVars, agents, libVars, np_state, agentVars>>

\* `for day in range(self.simulation_days)`: the next day starts
\* (self.current_day and self.current_date are set), or the loop ends
ForDay ==
    /\ pc = "for_day"
    /\ IF day_iter < simulation_days
       THEN /\ current_day' = day_iter
            /\ current_date' = day_iter
            /\ day_iter' = day_iter + 1
            /\ pc' = SubSteps[1]
       ELSE /\ pc' = "completed"
            /\ UNCHANGED <<current_day, current_date, day_iter>>
    /\ UNCHANGED <<simulation_days, marketVars, agents, libVars, np_state, agentVars>>

UpdateMarketState(normal_draws) ==
    /\ pc = "update_market_state"
    /\ \E noise \in normal_draws :
          market_state' = update_market_state(market_state, noise)
    /\ np_state' = [np_state EXCEPT !.pos = @ + 7]
    /\ pc' = AfterStep(pc)
    /\ UNCHANGED <<loopVars, asset_prices, events, agents, libVars, agentVars>>

ProcessEvents(magnitudes) ==
    /\ pc = "process_events"
    /\ \E r \in RandomDraws, event_type \in EventTypes, m \in magnitudes :
          LET out == process_events(market_state, events, current_day,
                                    current_date, r, event_type, m)
          IN  /\ market_state' = out.market_state
              /\ events' = out.events
    /\ pc' = AfterStep(pc)
    /\ UNCHANGED <<loopVars, asset_prices, agents, libVars, np_state, agentVars>>

ExecuteRegulatoryActivities ==
    /\ pc = "execute_regulatory_activities"
    /\ market_state' =
          execute_regulatory_activities(market_state, agents, current_day)
    /\ pc' = AfterStep(pc)
    /\ UNCHANGED <<loopVars, asset_prices, events, agents, libVars, np_state, agentVars>>

\* an interaction step out of which a failed transfer propagates as an
\* exception that ends run_simulation
ExecuteAgentInteractions_failure_raises(interaction_types) ==
    /\ pc = "execute_agent_interactions"
    /\ \E attempts \in [1..num_interactions(agents) ->
                           {a \in AttemptDraws :
                               /\ ValidAttempt(a)
                               /\ a.interaction_type \in interaction_types}] :
          LET st == [balance |-> balance, history |-> transaction_history,
                     transactions |-> transactions,
                     last_transfer |-> NoTransfer, next_oid |-> next_oid]
              out == execute_agent_interactions(st, connections, attempts, 1)
          IN  /\ balance' = out.balance
              /\ transaction_history' = out.history
              /\ transactions' = out.transactions
              /\ last_transfer' = IF out.last_transfer = NoTransfer
                                  THEN last_transfer ELSE out.last_transfer
              /\ next_oid' = out.next_oid
              /\ pc' = IF /\ out.last_transfer # NoTransfer
                          /\ ~out.last_transfer.success
                       THEN "raised" ELSE AfterStep(pc)
    /\ UNCHANGED <<loopVars, marketVars, agents, libVars, np_state, connections>>

ExecuteAgentInteractions(interaction_types) ==
    /\ pc = "execute_agent_interactions"
    /\ \E attempts \in [1..num_interactions(agents) ->
                           {a \in AttemptDraws :
                               /\ ValidAttempt(a)
                               /\ a.interaction_type \in interaction_types}] :
          LET st == [balance |-> balance, history |-> transaction_history,
                     transactions |-> transactions,
                     last_transfer |-> last_transfer, next_oid |-> next_oid]
              out == execute_agent_interactions(st, connections, attempts, 1)
          IN  /\ balance' = out.balance
              /\ transaction_history' = out.history
              /\ transactions' = out.transactions
              /\ last_transfer' = out.last_transfer
              /\ next_oid' = out.next_oid
    /\ pc' = AfterStep(pc)
    /\ UNCHANGED <<loopVars, marketVars, agents, libVars, np_state, connections>>

UpdateAssetPrices ==
    /\ pc = "update_asset_prices"
    /\ asset_prices' = update_asset_prices(asset_prices, market_state,
                                           current_day)
    /\ pc' = AfterStep(pc)
    /\ UNCHANGED <<loopVars, market_state, events, agents, libVars, np_state, agentVars>>

\* _perform_settlement: `pass`
PerformSettlement ==
    /\ pc = "perform_settlement"
    /\ pc' = AfterStep(pc)
    /\ UNCHANGED <<loopVars, marketVars, agents, libVars, np_state, agentVars>>

\* _record_state: `pass`
RecordState ==
    /\ pc = "record_state"
    /\ pc' = AfterStep(pc)
    /\ UNCHANGED <<loopVars, marketVars, agents, libVars, np_state, agentVars>>

\* The day loop with every interaction draw, on days with a rising or
\* unmoved market and events of positive magnitude.
Next ==
    \/ RunSimulation
    \/ ForDay
    \/ UpdateMarketState({ZeroDraw, HighDraw})
    \/ ProcessEvents({100000})
    \/ ExecuteRegulatoryActivities
    \/ ExecuteAgentInteractions({"message", "transaction"})
    \/ UpdateAssetPrices
    \/ PerformSettlement
    \/ RecordState

Spec == Init /\ [][Next]_vars

\* run_simulation is sequential code: it keeps running until it returns
FairSpec == Spec /\ WF_vars(Next)

\* The day loop with every market draw, on days whose interactions are
\* messages.
NextMarket ==
    \/ RunSimulation
    \/ ForDay
    \/ UpdateMarketState(NormalDraws)
    \/ ProcessEvents(Magnitudes)
    \/ ExecuteRegulatoryActivities
    \/ ExecuteAgentInteractions({"message"})
    \/ UpdateAssetPrices
    \/ PerformSettlement
    \/ RecordState

SpecMarket == Init /\ [][NextMarket]_vars

----------------------------------------------------------------------------
(* Direct calls of FinancialAgent.transfer_funds, src/utils/base_agent.py *)

\* the balances a catalogue can give an agent (_create_agent:
\* agent.balance = entity_config.get("initial_balance", 0.0))
InitialBalances == {-100, 0, 100}

\* the library state of a process that made no MarketUtils call and built
\* no MarketSimulation
NoLibrary ==
    /\ config = DefaultConfig
    /\ hash_salt = 0
    /\ np_state = [seed |-> 0, pos |-> 0]
    /\ calls = << >>
    /\ init_error = ""

InitAgent ==
    /\ pc = "agent_api"
    /\ simulation_days = 0
    /\ day_iter = 0
    /\ current_day = 0
    /\ current_date = 0
    /\ market_state = InitialMarketState
    /\ asset_prices = [a \in ASSET_CLASSES |-> << >>]
    /\ agents = initialize_agents(FINANCIAL_ENTITIES)
    /\ balance \in [1..Len(FINANCIAL_ENTITIES) -> InitialBalances]
    /\ connections = establish_connections(initialize_agents(FINANCIAL_ENTITIES))
    /\ transaction_history = [i \in 1..Len(FINANCIAL_ENTITIES) |-> << >>]
    /\ transactions = << >>
    /\ events = << >>
    /\ last_transfer = NoTransfer
    /\ next_oid = 1
    /\ NoLibrary

\* self.transfer_funds(recipient, amount) is called on some agent for some
\* other agent
TransferFunds ==
    /\ pc = "agent_api"
    /\ next_oid <= MaxCalls
    /\ \E self \in Ids, recipient \in Ids, amount \in TransferAmounts :
          /\ recipient # self
          /\ LET r == transfer_funds(balance, transaction_history, next_oid,
                                     self, recipient, amount, "")
             IN  /\ balance' = r.balance
                 /\ transaction_history' = r.history
                 /\ last_transfer' =
                       [self |-> self, recipient |-> recipient,
                        amount |-> amount, success |-> r.success,
                        message |-> r.message,
                        transaction |-> r.transaction]
                 /\ next_oid' = IF r.success THEN next_oid + 1 ELSE next_oid
    /\ UNCHANGED <<pc, loopVars, marketVars, agents, libVars, np_state, connections,
                   transactions>>

NextAgent == TransferFunds

SpecAgent == InitAgent /\ [][NextAgent]_vars

----------------------------------------------------------------------------
(* The regulatory step on given market states, market_simulation.py:279-309 *)

\* inflation, growth and interest rates on both sides of the rule's
\* thresholds (0.04, 0.01) and of the interest-rate floor
RuleInflation == {0, 30000, 40000, 40001, 45000, 300000}
RuleGrowth == {-50000, 0, 9999, 10000, 20000}
RuleInterest == {1000, 2000, 20000, 100000}
RuleDays == {0, 1, 30}

InitRule ==
    /\ pc = "rule_api"
    /\ simulation_days = 0
    /\ day_iter = 0
    /\ current_day = 0
    /\ current_date = 0
    /\ \E i \in RuleInflation, g \in RuleGrowth, r \in RuleInterest :
          market_state = [InitialMarketState EXCEPT !.inflation_rate = i,
                                                    !.economic_growth = g,
                                                    !.interest_rate = r]
    /\ asset_prices = [a \in ASSET_CLASSES |-> << >>]
    /\ agents = initialize_agents(FINANCIAL_ENTITIES)
    /\ balance = [i \in 1..Len(FINANCIAL_ENTITIES) |->
                     FINANCIAL_ENTITIES[i].initial_balance]
    /\ connections = establish_connections(initialize_agents(FINANCIAL_ENTITIES))
    /\ transaction_history = [i \in 1..Len(FINANCIAL_ENTITIES) |-> << >>]
    /\ transactions = << >>
    /\ events = << >>
    /\ last_transfer = NoTransfer
    /\ next_oid = 1
    /\ NoLibrary

\* _execute_regulatory_activities runs on some day; the market state it
\* found is kept in `calls`
EvaluateRule ==
    /\ pc = "rule_api"
    /\ \E day \in RuleDays :
          /\ market_state' =
                 execute_regulatory_activities(market_state, agents, day)
          /\ calls' = Append(calls, [fn |-> "execute_regulatory_activities",
                                     day |-> day, args |-> market_state])
    /\ pc' = "rule_done"
    /\ UNCHANGED <<loopVars, asset_prices, events, agents, agentVars,
                   config, hash_salt, np_state, init_error>>

NextRule == EvaluateRule

SpecRule == InitRule /\ [][NextRule]_vars

----------------------------------------------------------------------------
(* Direct calls of FinancialAgent.add_connection, src/utils/base_agent.py *)

\* The agents are fresh (connections = []) or as _initialize_agents leaves
\* them after _establish_connections.
InitConnect ==
    /\ pc = "connect_api"
    /\ simulation_days = 0
    /\ day_iter = 0
    /\ current_day = 0
    /\ current_date = 0
    /\ market_state = InitialMarketState
    /\ asset_prices = [a \in ASSET_CLASSES |-> << >>]
    /\ agents = initialize_agents(FINANCIAL_ENTITIES)
    /\ balance = [i \in 1..Len(FINANCIAL_ENTITIES) |->
                     FINANCIAL_ENTITIES[i].initial_balance]
    /\ connections \in
          { [i \in 1..Len(FINANCIAL_ENTITIES) |-> << >>],
            establish_connections(initialize_agents(FINANCIAL_ENTITIES)) }
    /\ transaction_history = [i \in 1..Len(FINANCIAL_ENTITIES) |-> << >>]
    /\ transactions = << >>
    /\ events = << >>
    /\ last_transfer = NoTransfer
    /\ next_oid = 1
    /\ NoLibrary

\* self.add_connection(other_agent) is called on some agent for some agent,
\* itself included
AddConnection ==
    /\ pc = "connect_api"
    /\ \E self \in Ids, other_agent \in Ids :
          connections' = add_connection(connections, self, other_agent)
    /\ UNCHANGED <<pc, loopVars, marketVars, agents, libVars, np_state,
                   balance, transaction_history, transactions,
                   last_transfer, next_oid>>

NextConnect == AddConnection

SpecConnect == InitConnect /\ [][NextConnect]_vars

----------------------------------------------------------------------------
(* Direct calls of MarketUtils, src/utils/market_utils.py *)

\* the seeds numpy may have taken from the operating system when the
\* process imported it
EntropySeeds == {7, 8}

\* arguments of generate_price_series: prices in hundredths, volatility and
\* drift in thousandths
PriceSeriesArgs ==
    { [initial_price |-> 10000, days |-> d, volatility |-> v, drift |-> 0,
       random_seed |-> s] :
        d \in {-1, 0, 1, 3}, v \in {-10, 0, 200}, s \in {None, 42} }

\* arguments of simulate_interest_rates: rates and volatility in
\* millionths, mean_reversion in hundredths
InterestRateArgs ==
    { [initial_rate |-> r, days |-> d, volatility |-> 500,
       mean_reversion |-> 1, long_term_mean |-> 30000, random_seed |-> s] :
        r \in {500, 20000}, d \in {0, 1, 2}, s \in {None, 42} }

\* one side of an order book, best price first
Orders ==
    { << >>, << <<100, 10>> >>, << <<99, 10>> >>,
      << <<101, 10>>, <<100, 5>> >> }

OrderBooks == { [bids |-> b, asks |-> a] : b \in Orders, a \in Orders }

NoLiquidity == [inf |-> FALSE, value |-> 0]

InitLib ==
    /\ pc = "library_api"
    /\ simulation_days = 0
    /\ day_iter = 0
    /\ current_day = 0
    /\ current_date = 0
    /\ market_state = InitialMarketState
    /\ asset_prices = [a \in ASSET_CLASSES |-> << >>]
    /\ agents = << >>
    /\ balance = << >>
    /\ connections = << >>
    /\ transaction_history = << >>
    /\ transactions = << >>
    /\ events = << >>
    /\ last_transfer = NoTransfer
    /\ next_oid = 1
    /\ config = DefaultConfig
    /\ hash_salt = 0
    /\ \E s \in EntropySeeds : np_state = np_random_seed(s)
    /\ calls = << >>
    /\ init_error = ""

LibUnchanged ==
    UNCHANGED <<pc, loopVars, marketVars, agents, agentVars, config,
                hash_salt, init_error>>

\* MarketUtils.generate_price_series(...) is called
GeneratePriceSeries ==
    /\ pc = "library_api"
    /\ Len(calls) < MaxLibCalls
    /\ \E a \in PriceSeriesArgs :
          LET r == MarketUtils_generate_price_series(
                       np_state, a.initial_price, a.days, a.volatility,
                       a.drift, a.random_seed)
          IN  /\ np_state' = r.np
              /\ calls' = Append(calls,
                     [fn |-> "generate_price_series", args |-> a,
                      outcome |-> r.outcome, value |-> r.value,
                      liquidity |-> NoLiquidity])
    /\ LibUnchanged

\* MarketUtils.simulate_interest_rates(...) is called
SimulateInterestRates ==
    /\ pc = "library_api"
    /\ Len(calls) < MaxLibCalls
    /\ \E a \in InterestRateArgs :
          LET r == MarketUtils_simulate_interest_rates(
                       np_state, a.initial_rate, a.days, a.volatility,
                       a.mean_reversion, a.long_term_mean, a.random_seed)
          IN  /\ np_state' = r.np
              /\ calls' = Append(calls,
                     [fn |-> "simulate_interest_rates", args |-> a,
                      outcome |-> r.outcome, value |-> r.value,
                      liquidity |-> NoLiquidity])
    /\ LibUnchanged

\* MarketUtils.calculate_market_liquidity(order_book) is called
CalculateMarketLiquidity ==
    /\ pc = "library_api"
    /\ Len(calls) < MaxLibCalls
    /\ \E order_book \in OrderBooks :
          calls' = Append(calls,
              [fn |-> "calculate_market_liquidity", args |-> order_book,
               outcome |-> "returned", value |-> << >>,
               liquidity |-> calculate_market_liquidity(order_book)])
    /\ UNCHANGED np_state
    /\ LibUnchanged

\* the caller draws from numpy's global generator between two calls
NpRandomNormal ==
    /\ pc = "library_api"
    /\ Len(calls) < MaxLibCalls
    /\ LET r == np_random_normal(np_state, 0, 1, 1)
       IN  /\ np_state' = r.np
           /\ calls' = Append(calls,
                  [fn |-> "np_random_normal", args |-> << >>,
                   outcome |-> r.outcome, value |-> r.value,
                   liquidity |-> NoLiquidity])
    /\ LibUnchanged

NextLib ==
    \/ GeneratePriceSeries
    \/ SimulateInterestRates
    \/ CalculateMarketLiquidity
    \/ NpRandomNormal

SpecLib == InitLib /\ [][NextLib]_vars

----------------------------------------------------------------------------
(* MarketSimulation.__init__ on given configurations,                      *)
(* src/market_simulation.py:28-85                                          *)

\* the salts a process may have drawn for its str hash
HashSalts == {0, 1, 2}

\* the asset classes of the shipped ASSET_CLASSES table
KnownAssetClasses ==
    {"stocks", "bonds", "commodities", "real_estate", "crypto"}

\* ASSET_CLASSES tables: none, the shipped stocks entry, stocks with a
\* negative volatility, a class the shipped table does not have, and two
\* classes
AssetTables ==
    { << >>,
      << [name |-> "stocks", volatility |-> 200, drift |-> 0] >>,
      << [name |-> "stocks", volatility |-> -200, drift |-> 0] >>,
      << [name |-> "tulips", volatility |-> 100, drift |-> 0] >>,
      << [name |-> "stocks", volatility |-> 200, drift |-> 0],
         [name |-> "bonds", volatility |-> 50, drift |-> 0] >> }

Configs ==
    { [random_seed |-> s, asset_classes |-> t] :
        s \in {42, 43}, t \in AssetTables }

\* SIMULATION_PARAMS["simulation_days"] values
ConfiguredDays == -1..MaxDays

\* the loop `for asset_class in ASSET_CLASSES` of __init__ from the i-th
\* class on: self.asset_prices[asset_class] = generate_price_series(...);
\* an exception leaves the loop and __init__
RECURSIVE init_asset_prices(_, _, _, _, _, _)
init_asset_prices(cfg, days, salt, np, prices, i) ==
    IF i > Len(cfg.asset_classes)
    THEN [np |-> np, outcome |-> "returned", asset_prices |-> prices]
    ELSE LET asset_class == cfg.asset_classes[i]
             r == MarketUtils_generate_price_series(
                      np, 10000, days, asset_class.volatility,
                      asset_class.drift,
                      asset_seed(cfg, salt, asset_class.name))
         IN  IF r.outcome # "returned"
             THEN [np |-> r.np, outcome |-> r.outcome,
                   asset_prices |-> prices]
             ELSE init_asset_prices(cfg, days, salt, r.np,
                                    prices @@ (asset_class.name :> r.value),
                                    i + 1)

\* __init__ up to the end of the asset loop: np.random.seed(random_seed),
\* then the asset loop
init_random_streams(cfg, days, salt) ==
    init_asset_prices(cfg, days, salt, np_random_seed(cfg.random_seed),
                      << >>, 1)

\* a process is about to build a MarketSimulation from its configuration
InitConstruct ==
    /\ pc = "constructing"
    /\ simulation_days \in ConfiguredDays
    /\ day_iter = 0
    /\ current_day = 0
    /\ current_date = 0
    /\ market_state = InitialMarketState
    /\ asset_prices = << >>
    /\ agents = << >>
    /\ balance = << >>
    /\ connections = << >>
    /\ transaction_history = << >>
    /\ transactions = << >>
    /\ events = << >>
    /\ last_transfer = NoTransfer
    /\ next_oid = 1
    /\ config \in Configs
    /\ hash_salt \in HashSalts
    /\ np_state = np_random_seed(7)
    /\ calls = << >>
    /\ init_error = ""

\* MarketSimulation() runs: it returns the simulation, or raises what the
\* asset loop raised, before any agent is created
Construct ==
    /\ pc = "constructing"
    /\ LET r == init_random_streams(config, simulation_days, hash_salt)
       IN  /\ np_state' = r.np
           /\ asset_prices' = r.asset_prices
           /\ IF r.outcome = "returned"
              THEN /\ agents' = initialize_agents(FINANCIAL_ENTITIES)
                   /\ balance' = [i \in 1..Len(FINANCIAL_ENTITIES) |->
                                     FINANCIAL_ENTITIES[i].initial_balance]
                   /\ connections' =
                         establish_connections(
                             initialize_agents(FINANCIAL_ENTITIES))
                   /\ transaction_history' =
                         [i \in 1..Len(FINANCIAL_ENTITIES) |-> << >>]
                   /\ init_error' = ""
                   /\ pc' = "not_started"
              ELSE /\ init_error' = r.outcome
                   /\ pc' = "init_failed"
                   /\ UNCHANGED <<agents, balance, connections,
                                  transaction_history>>
    /\ UNCHANGED <<loopVars, market_state, events, transactions,
                   last_transfer, next_oid, config, hash_salt, calls>>

\* construction, and the day loop of the simulations it returns, on days
\* without market movement whose interactions are messages
NextConstruct ==
    \/ Construct
    \/ RunSimulation
    \/ ForDay
    \/ UpdateMarketState({ZeroDraw})
    \/ ProcessEvents({100000})
    \/ ExecuteRegulatoryActivities
    \/ ExecuteAgentInteractions({"message"})
    \/ UpdateAssetPrices
    \/ PerformSettlement
    \/ RecordState

SpecConstruct == InitConstruct /\ [][NextConstruct]_vars

----------------------------------------------------------------------------
(* The regulatory step on given days and entity catalogues,                *)
(* market_simulation.py:279-309                                            *)

\* days around the multiples of the 30-day period, of
\* stress_test_frequency and of reporting_frequency
CadenceDays == {0, 1, 29, 30, 31, 60, 89, 90}

\* entity catalogues: the excerpt with its central bank, the same without
\* the central bank, and an empty one
Catalogues ==
    { FINANCIAL_ENTITIES, SubSeq(FINANCIAL_ENTITIES, 2, 3), << >> }

InitCadence ==
    /\ pc = "regulatory_api"
    /\ simulation_days = 0
    /\ day_iter = 0
    /\ current_day = 0
    /\ current_date = 0
    /\ \E i \in RuleInflation, g \in RuleGrowth, r \in {1000, 20000} :
          market_state = [InitialMarketState EXCEPT !.inflation_rate = i,
                                                    !.economic_growth = g,
                                                    !.interest_rate = r]
    /\ asset_prices = [a \in ASSET_CLASSES |-> << >>]
    /\ \E entities \in Catalogues :
          /\ agents = initialize_agents(entities)
          /\ balance = [i \in 1..Len(entities) |->
                           entities[i].initial_balance]
          /\ connections = establish_connections(initialize_agents(entities))
          /\ transaction_history = [i \in 1..Len(entities) |-> << >>]
    /\ transactions = << >>
    /\ events = << >>
    /\ last_transfer = NoTransfer
    /\ next_oid = 1
    /\ NoLibrary

\* _execute_regulatory_activities runs with self.current_day set to some
\* day; the market state it found, and whether the stress-test and the
\* reporting cadence logged, are kept in `calls`
ExecuteRegulatoryStep ==
    /\ pc = "regulatory_api"
    /\ \E day \in CadenceDays :
          /\ current_day' = day
          /\ market_state' =
                 execute_regulatory_activities(market_state, agents, day)
          /\ calls' = Append(calls,
                 [fn |-> "execute_regulatory_activities", day |-> day,
                  args |-> market_state,
                  stress_test |-> (day % stress_test_frequency = 0),
                  report |-> (day % reporting_frequency = 0)])
    /\ pc' = "regulatory_done"
    /\ UNCHANGED <<simulation_days, day_iter, current_date, asset_prices,
                   events, agents, agentVars, config, hash_salt, np_state,
                   init_error>>

NextCadence == ExecuteRegulatoryStep

SpecCadence == InitCadence /\ [][NextCadence]_vars

----------------------------------------------------------------------------
(* The day loop on entity catalogues of every size,                        *)
(* market_simulation.py:176-207, 311-340                                   *)

\* a catalogue of n entities: the excerpt, cut or continued with further
\* commercial banks
Catalogue(n) ==
    [i \in 1..n |->
        IF i <= Len(FINANCIAL_ENTITIES) THEN FINANCIAL_ENTITIES[i]
        ELSE [name |-> "commercial_bank",
              agent_type |-> "financial_institutions",
              initial_balance |-> 10000]]

\* a one-day simulation built from a catalogue of 0 to MaxEntities entities
InitEntities == \E n \in 0..MaxEntities : InitWith(Catalogue(n), {1})

\* the day loop on a day without market movement, with every interaction
\* draw
NextEntities ==
    \/ RunSimulation
    \/ ForDay
    \/ UpdateMarketState({ZeroDraw})
    \/ ProcessEvents({100000})
    \/ ExecuteRegulatoryActivities
    \/ ExecuteAgentInteractions({"message", "transaction"})
    \/ UpdateAssetPrices
    \/ PerformSettlement
    \/ RecordState

SpecEntities == InitEntities /\ [][NextEntities]_vars

----------------------------------------------------------------------------
(* MarketUtils.simulate_market_shock on given series,                      *)
(* src/utils/market_utils.py:94-128                                        *)

\* price series with a daily index, in hundredths
ShockSeries ==
    { << >>, <<10000>>, <<10000, 10100, 10200, 10300>>,
      <<10000, 9900, 9800, 9700, 9600, 9500>> }

\* shock_magnitude in thousandths, recovery_days, recovery_strength in
\* hundredths (0.7 is the default)
ShockMagnitudes == {-500, -50, 100}
RecoveryDays == {0, 1, 2, 3, 7}
RecoveryStrengths == {0, 70, 100, 150}

InitShock ==
    /\ pc = "shock_api"
    /\ simulation_days = 0
    /\ day_iter = 0
    /\ current_day = 0
    /\ current_date = 0
    /\ market_state = InitialMarketState
    /\ asset_prices = [a \in ASSET_CLASSES |-> << >>]
    /\ agents = << >>
    /\ balance = << >>
    /\ connections = << >>
    /\ transaction_history = << >>
    /\ transactions = << >>
    /\ events = << >>
    /\ last_transfer = NoTransfer
    /\ next_oid = 1
    /\ NoLibrary

\* MarketUtils.simulate_market_shock(prices, ...) is called
SimulateMarketShock ==
    /\ pc = "shock_api"
    /\ \E prices \in ShockSeries, m \in ShockMagnitudes,
          d \in RecoveryDays, g \in RecoveryStrengths :
          LET r == simulate_market_shock(prices, m, d, g)
          IN  calls' = Append(calls,
                  [fn |-> "simulate_market_shock",
                   args |-> [prices |-> prices, shock_magnitude |-> m,
                             recovery_days |-> d, recovery_strength |-> g],
                   outcome |-> r.outcome, value |-> r.value,
                   prices |-> r.prices])
    /\ pc' = "shock_done"
    /\ UNCHANGED <<loopVars, marketVars, agents, agentVars, config,
                   hash_salt, np_state, init_error>>

NextShock == SimulateMarketShock

SpecShock == InitShock /\ [][NextShock]_vars

----------------------------------------------------------------------------
(* The day loop on catalogues with given initial balances,                 *)
(* market_simulation.py:119, 176-207, 311-340                              *)

\* initial balances that are not negative: none, little and much
NonNegativeBalances == {0, 100, 50000}

\* the excerpt of the catalogue with initial_balance values b
WithBalances(b) ==
    [i \in 1..Len(FINANCIAL_ENTITIES) |->
        [FINANCIAL_ENTITIES[i] EXCEPT !.initial_balance = b[i]]]

\* a two-day simulation built from such a catalogue
InitBalances ==
    \E b \in [1..Len(FINANCIAL_ENTITIES) -> NonNegativeBalances] :
        InitWith(WithBalances(b), {2})

SpecBalances == InitBalances /\ [][NextEntities]_vars

TypeOK ==
    /\ pc \in {"not_started", "for_day", "completed", "agent_api",
               "connect_api", "library_api", "rule_api", "rule_done",
               "constructing", "init_failed", "regulatory_api",
               "regulatory_done", "shock_api", "shock_done"}
                \cup {SubSteps[i] : i \in 1..Len(SubSteps)}
    /\ simulation_days \in -1..MaxDays
    /\ current_day \in 0..MaxDays \cup CadenceDays

----------------------------------------------------------------------------
(* Properties *)

\* C1: after every completed sub-step of every day MarketState is within its
\* declared bounds: interest_rate >= 0.001, inflation_rate >= 0,
\* market_volatility >= 0.01, 0.5 <= liquidity_factor <= 2.0,
\* -1.0 <= market_sentiment <= 1.0 and 0.01 <= unemployment_rate <= 0.2.
C1_MarketStateBounds ==
    /\ market_state.interest_rate >= 1000
    /\ market_state.inflation_rate >= 0
    /\ market_state.market_volatility >= 10000
    /\ market_state.liquidity_factor >= 500000
    /\ market_state.liquidity_factor <= 2000000
    /\ market_state.market_sentiment >= -1000000
    /\ market_state.market_sentiment <= 1000000
    /\ market_state.unemployment_rate >= 10000
    /\ market_state.unemployment_rate <= 200000

\* a day on which the market fell to its floors and bad economic news
\* pushed sentiment below -1.0 before the re-clamp, seen after the
\* regulatory step
C1_Witness ==
    /\ pc = "execute_agent_interactions"
    /\ Len(events) > 0
    /\ events[Len(events)].day = current_day
    /\ events[Len(events)].type = "economic_news"
    /\ events[Len(events)].magnitude = -100000
    /\ market_state.market_sentiment = -1000000
    /\ market_state.interest_rate = 1000
    /\ market_state.inflation_rate = 0
    /\ market_state.market_volatility = 10000
    /\ market_state.liquidity_factor = 500000
    /\ market_state.unemployment_rate = 10000

\* a step in which a transfer_funds call succeeded
TransferSucceeded == next_oid' = next_oid + 1

C3_InsufficientFunds ==
    [][ LET t == last_transfer'
        IN  (t.amount > 0 /\ balance[t.self] < t.amount) =>
                /\ ~t.success
                /\ t.message = "insufficient_balance"
                /\ balance' = balance
                /\ transaction_history' = transaction_history
                /\ transactions' = transactions
                /\ next_oid' = next_oid
      ]_vars

\* 150 was asked of an agent holding 100, for a recipient that has an
\* earlier transfer in its history
C3_Witness ==
    /\ pc = "agent_api"
    /\ last_transfer.amount = 150
    /\ ~last_transfer.success
    /\ last_transfer.message = "insufficient_balance"
    /\ balance[last_transfer.self] = 100
    /\ Len(transaction_history[last_transfer.recipient]) = 1

\* C4: a transfer_funds call with amount <= 0 returns the invalid-amount
\* failure, whatever the sender's balance (also when the balance is below
\* the amount), and changes no balance, no history and not the ledger.
C4_InvalidAmount ==
    [][ LET t == last_transfer'
        IN  (t.self # 0 /\ t.amount <= 0) =>
                /\ ~t.success
                /\ t.message = "amount_must_be_positive"
                /\ balance' = balance
                /\ transaction_history' = transaction_history
                /\ transactions' = transactions
                /\ next_oid' = next_oid
      ]_vars

\* -50 was asked of an agent whose balance, -100, is below the amount
C4_Witness ==
    /\ pc = "agent_api"
    /\ last_transfer.amount = -50
    /\ balance[last_transfer.self] = -100
    /\ ~last_transfer.success
    /\ last_transfer.message = "amount_must_be_positive"

\* the ledger and the histories hold the same transactions, once each
LedgerMatchesHistories ==
    /\ \A i \in 1..Len(transactions) :
          LET t == transactions[i]
          IN  /\ t.from \in Ids /\ t.to \in Ids
              /\ Count(t, transactions) = 1
              /\ Count(t, transaction_history[t.from]) = 1
              /\ Count(t, transaction_history[t.to]) = 1
    /\ \A a \in Ids : \A i \in 1..Len(transaction_history[a]) :
          /\ InList(transaction_history[a][i], transactions)
          /\ a \in {transaction_history[a][i].from,
                    transaction_history[a][i].to}

\* C5: in the day loop every successful transfer appends one record to the
\* sender's history, one to the recipient's history and one to the global
\* ledger; so every ledger entry occurs exactly once in the history of its
\* source and of its destination, and every history entry is in the ledger.
C5_LedgerAndHistories ==
    /\ []LedgerMatchesHistories
    /\ [][ /\ Len(transactions') = Len(transactions) + (next_oid' - next_oid)
           /\ SumOver([a \in Ids |-> Len(transaction_history'[a])], Ids)
                 = SumOver([a \in Ids |-> Len(transaction_history[a])], Ids)
                     + 2 * (next_oid' - next_oid)
           /\ TransferSucceeded =>
                 LET t == last_transfer'
                 IN  /\ transactions' = Append(transactions, t.transaction)
                     /\ transaction_history'[t.self] =
                           Append(transaction_history[t.self], t.transaction)
                     /\ transaction_history'[t.recipient] =
                           Append(transaction_history[t.recipient],
                                  t.transaction)
         ]_vars

\* two days, each with a successful transfer
C5_Witness ==
    /\ pc = "completed"
    /\ Len(transactions) = 2
    /\ transactions[1].from # transactions[2].from

\* C6: within a day the seven sub-steps run once each in the order market
\* state update, event processing, regulatory step, agent interactions,
\* price adjustment, settlement hook, snapshot hook, all on the same day;
\* so the regulatory rule is applied to the market state left by that day's
\* update and events, and the price adjustment uses the sentiment and
\* volatility left by that day's events.
C6_SubStepOrder ==
    [][ /\ (pc = "for_day" /\ pc' # "completed") =>
              pc' = "update_market_state"
        /\ pc = "update_market_state" =>
              pc' = "process_events" /\ current_day' = current_day
        /\ pc = "process_events" =>
              pc' = "execute_regulatory_activities"
                 /\ current_day' = current_day
        /\ pc = "execute_regulatory_activities" =>
              /\ pc' = "execute_agent_interactions"
              /\ current_day' = current_day
              /\ (current_day % 30 = 0 /\ market_state.inflation_rate > 40000)
                    => market_state'.interest_rate
                          > market_state.interest_rate
        /\ pc = "execute_agent_interactions" =>
              pc' = "update_asset_prices" /\ current_day' = current_day
        /\ pc = "update_asset_prices" =>
              /\ pc' = "perform_settlement"
              /\ current_day' = current_day
              /\ \A a \in ASSET_CLASSES :
                    asset_prices'[a][current_day + 1] =
                        adjusted_price(asset_prices[a][current_day + 1],
                                       market_state)
        /\ pc = "perform_settlement" =>
              pc' = "record_state" /\ current_day' = current_day
        /\ pc = "record_state" =>
              pc' = "for_day" /\ current_day' = current_day
      ]_vars

\* day 0, after the regulatory step: inflation rose above 0.04 in this
\* day's update, an event fired, and the rate is above anything the update
\* alone can give (0.0225), so the rule saw the day's inflation
C6_Witness ==
    /\ pc = "update_asset_prices"
    /\ current_day = 0
    /\ Len(events) = 1
    /\ market_state.inflation_rate > 40000
    /\ market_state.interest_rate > 22500

\* C7: run_simulation terminates: it runs days 0, 1, ..., N-1 in this
\* order, each once, and then completes; it completes only when all N days
\* are done.
C7_RunsAllDaysAndCompletes ==
    /\ <>(pc = "completed")
    /\ [][ /\ (pc = "not_started") => (pc' = "for_day" /\ day_iter' = 0)
           /\ (pc = "for_day" /\ pc' # "completed") =>
                 /\ current_day' = day_iter
                 /\ day_iter' = day_iter + 1
                 /\ current_day' < simulation_days
           /\ pc # "for_day" =>
                 (day_iter' = day_iter /\ current_day' = current_day)
           /\ pc' = "completed" => day_iter = simulation_days
           /\ pc = "completed" => pc' = "completed"
           /\ simulation_days' = simulation_days
         ]_vars

\* a run of two days has completed
C7_Witness ==
    /\ pc = "completed"
    /\ simulation_days = 2
    /\ day_iter = 2

\* C8 as stated: at completion current_day equals simulation_days
C8_DayCounterReachesTotal ==
    pc = "completed" => current_day = simulation_days

\* C8, amended: at completion the iterator over range(simulation_days) is
\* exhausted and current_day is the index of the last day,
\* simulation_days - 1 (0 when no day was configured).
C8_DayCounterIsLastIndex ==
    pc = "completed" =>
        /\ day_iter = simulation_days
        /\ current_day = Max(0, simulation_days - 1)

\* a completed run of two days, whose day counter is 1
C8_Witness ==
    /\ pc = "completed"
    /\ simulation_days = 2
    /\ current_day = 1

\* C9: the event log grows by at most one event per day: it holds at most
\* as many events as days were started, the events' days strictly
\* increase, and an event is appended only by the event step and carries
\* the day on which it is appended.
C9_AtMostOneEventPerDay ==
    /\ [](/\ Len(events) <= day_iter
          /\ \A i \in 1..Len(events) : events[i].day <= current_day
          /\ \A i, j \in 1..Len(events) :
                i < j => events[i].day < events[j].day)
    /\ [][ events' # events =>
              /\ pc = "process_events"
              /\ Len(events') = Len(events) + 1
              /\ SubSeq(events', 1, Len(events)) = events
              /\ events'[Len(events')].day = current_day
              /\ events'[Len(events')].date = current_date
         ]_vars

\* events fired on day 0 and on day 1
C9_Witness ==
    /\ pc = "completed"
    /\ Len(events) = 2
    /\ events[1].day = 0
    /\ events[2].day = 1

\* C10: every event of the log has a magnitude in [-0.1, 0.1] and one of
\* the five categories, and a logged event is never changed or removed.
C10_EventsBoundedAndImmutable ==
    /\ [](\A i \in 1..Len(events) :
             /\ events[i].magnitude >= -100000
             /\ events[i].magnitude <= 100000
             /\ events[i].type \in
                   {"economic_news", "political_event", "natural_disaster",
                    "technology_breakthrough", "regulatory_change"})
    /\ [][ /\ Len(events') >= Len(events)
           /\ \A i \in 1..Len(events) : events'[i] = events[i]
         ]_vars

\* a second event was logged behind a first one of magnitude -0.1
C10_Witness ==
    /\ Len(events) = 2
    /\ events[1].magnitude = -100000
    /\ events[1].type = "natural_disaster"
    /\ events[2].magnitude = 100000
    /\ events[2].type = "regulatory_change"

\* C11: when the central bank's rule is evaluated with inflation_rate above
\* 0.04, interest_rate rises strictly, by min(0.0025, (inflation - 0.02) *
\* 0.1), whatever economic_growth is (below 0.01 included): the growth
\* branch has no effect, and no evaluation applies both branches.  Nothing
\* else of the market state changes.
C11_InflationBranchWins ==
    (pc = "rule_done" /\ calls[1].day % 30 = 0
                      /\ calls[1].args.inflation_rate > 40000) =>
        LET before == calls[1].args
        IN  /\ market_state.interest_rate > before.interest_rate
            /\ market_state =
                   [before EXCEPT !.interest_rate =
                       @ + Min(2500, (before.inflation_rate - 20000) \div 10)]

\* the rule was evaluated on day 30 with inflation at 0.045 and growth at
\* -0.05, both branches' conditions true, and the rate went up from the floor
C11_Witness ==
    /\ pc = "rule_done"
    /\ calls[1].day = 30
    /\ calls[1].args.inflation_rate = 45000
    /\ calls[1].args.economic_growth = -50000
    /\ calls[1].args.interest_rate = 1000
    /\ market_state.interest_rate = 3500

\* the draws of an attempt whose agent2 is not in agent1.connections
UnconnectedAttempt(a) ==
    ValidAttempt(a) /\ ~InList(a.agent2, connections[a.agent1])

\* C12: every transaction the day loop put in the ledger is between two
\* distinct entities, the recipient being in the sender's connections; and
\* an interaction step whose drawn pairs are unconnected leaves every
\* balance, every history and the ledger as they were: it makes exactly
\* its num_interactions attempts and draws no replacement pair.
C12_OnlyConnectedPairsTransact ==
    /\ \A i \in 1..Len(transactions) :
          /\ transactions[i].from # transactions[i].to
          /\ InList(transactions[i].to, connections[transactions[i].from])
    /\ pc = "execute_agent_interactions" =>
          LET st == [balance |-> balance, history |-> transaction_history,
                     transactions |-> transactions,
                     last_transfer |-> last_transfer, next_oid |-> next_oid]
          IN  \A attempts \in [1..num_interactions(agents) ->
                                  {a \in AttemptDraws : UnconnectedAttempt(a)}] :
                  execute_agent_interactions(st, connections, attempts, 1) = st

\* the second day's interaction step is about to run with a transaction in
\* the ledger, and a transfer between an unconnected pair could be drawn
\* whose sender has funds
C12_Witness ==
    /\ pc = "execute_agent_interactions"
    /\ Len(transactions) > 0
    /\ \E a \in AttemptDraws :
          /\ UnconnectedAttempt(a)
          /\ a.interaction_type = "transaction"
          /\ drawn_amount(balance[a.agent1], a.u) > 0

\* C13: after any sequence of add_connection calls, on fresh agents or on
\* the agents _establish_connections has connected (the connections of
\* every day-loop state, which the day loop never writes), connections are
\* symmetric (B is in A's list exactly if A is in B's) and no list holds an
\* entity twice.
C13_ConnectionsSymmetricNoDuplicates ==
    /\ \A a \in Ids, b \in Ids :
          InList(b, connections[a]) <=> InList(a, connections[b])
    /\ \A a \in Ids, b \in Ids : Count(b, connections[a]) <= 1

\* on top of the central bank's established connection to the commercial
\* bank, the central bank connected to itself and the treasury connected to
\* the central bank
C13_Witness ==
    /\ pc = "connect_api"
    /\ connections[1] = <<3, 1, 2>>
    /\ connections[2] = <<1>>
    /\ connections[3] = <<1>>

\* C14: two runs with the same configuration and the same seed are exactly
\* reproducible: every random stream initialization consumes, and the
\* asset prices it builds, are determined by the configuration and its seed
\* alone, so a process with any other str hash salt gets the same generator
\* state, the same prices and the same outcome from __init__.
C14_RunsReproducible ==
    pc \in {"not_started", "init_failed"} =>
        \A salt \in HashSalts :
            LET other == init_random_streams(config, simulation_days, salt)
            IN  /\ other.outcome =
                       (IF init_error = "" THEN "returned" ELSE init_error)
                /\ other.asset_prices = asset_prices
                /\ other.np = np_state

\* the draws of an attempt that calls transfer_funds and gets a failure
FailingAttempt(st, a) ==
    /\ ValidAttempt(a)
    /\ InList(a.agent2, connections[a.agent1])
    /\ a.interaction_type = "transaction"
    /\ st.balance[a.agent1] > 0
    /\ ~interaction(st, connections, a).last_transfer.success

\* what of the agents' state an attempt can change
Effects(st) ==
    [balance |-> st.balance, history |-> st.history,
     transactions |-> st.transactions, next_oid |-> st.next_oid]

\* a failed attempt leaves balances, histories and ledger as they were,
\* and the attempt after it does what it would have done without it
FailedAttemptIsSkipped ==
    pc = "execute_agent_interactions" =>
        LET st == [balance |-> balance, history |-> transaction_history,
                   transactions |-> transactions,
                   last_transfer |-> last_transfer, next_oid |-> next_oid]
        IN  \A a \in AttemptDraws :
                FailingAttempt(st, a) =>
                    /\ Effects(interaction(st, connections, a)) = Effects(st)
                    /\ \A b \in {d \in AttemptDraws : ValidAttempt(d)} :
                          Effects(execute_agent_interactions(
                                      st, connections, <<a, b>>, 1))
                              = Effects(interaction(st, connections, b))

\* the interaction step goes on to the price update, and when its last
\* transfer failed and none succeeded it changed no balance, history or
\* ledger
InteractionStepGoesOn ==
    pc = "execute_agent_interactions" =>
        /\ pc' = "update_asset_prices"
        /\ (/\ last_transfer'.self # 0
            /\ ~last_transfer'.success
            /\ next_oid' = next_oid) =>
                /\ balance' = balance
                /\ transaction_history' = transaction_history
                /\ transactions' = transactions

\* C19: a failed transfer in the interaction step never halts the
\* simulation: the failed attempt changes no balance and adds nothing to
\* the ledger, the remaining attempts of the step, the later sub-steps and
\* the later days still execute, and the run reaches completion.
C19_FailedTransferDoesNotHalt ==
    /\ []FailedAttemptIsSkipped
    /\ [][InteractionStepGoesOn]_vars
    /\ (last_transfer.self # 0 /\ ~last_transfer.success)
           ~> (pc = "completed")

\* a two-day run completed whose first day recorded a transaction and
\* whose second day's transfer failed
C19_Witness ==
    /\ pc = "completed"
    /\ simulation_days = 2
    /\ Len(transactions) = 1
    /\ last_transfer.self # 0
    /\ ~last_transfer.success

\* the day count is not a positive integer, a volatility is negative or an
\* asset class is not one of the known ones
Malformed(cfg, days) ==
    \/ days <= 0
    \/ \E i \in 1..Len(cfg.asset_classes) :
          \/ cfg.asset_classes[i].volatility < 0
          \/ cfg.asset_classes[i].name \notin KnownAssetClasses

\* C20: with a malformed configuration (a day count that is not a positive
\* integer, a negative asset volatility, an unknown asset class)
\* initialization fails with an error before any day executes: no sub-step
\* runs and nothing is mutated.
C20_MalformedConfigRejected ==
    (pc # "constructing" /\ Malformed(config, simulation_days)) =>
        /\ pc = "init_failed"
        /\ init_error # ""
        /\ agents = << >>
        /\ events = << >>
        /\ transactions = << >>
        /\ market_state = InitialMarketState

\* the calls made of one MarketUtils function, by position in `calls`
CallsOf(fn) == {i \in 1..Len(calls) : calls[i].fn = fn}

\* C15: for every fixed seed, two calls of generate_price_series with
\* identical arguments return identical sequences, whatever draws and
\* calls were made in between.
C15_SeededSeriesRepeat ==
    \A i \in CallsOf("generate_price_series"),
       j \in CallsOf("generate_price_series") :
        (/\ i < j
         /\ calls[i].args = calls[j].args
         /\ calls[i].args.random_seed # None
         /\ calls[i].args.days >= 1
         /\ calls[i].args.volatility >= 0) =>
            /\ calls[i].outcome = "returned"
            /\ calls[j].outcome = "returned"
            /\ calls[i].value = calls[j].value

\* C16: generate_price_series with volatility = 0 and drift = 0 returns
\* successfully exactly `days` prices, each equal to the initial price.
C16_ConstantSeries ==
    \A i \in CallsOf("generate_price_series") :
        LET a == calls[i].args
        IN  (a.volatility = 0 /\ a.drift = 0 /\ a.days >= 1) =>
                /\ calls[i].outcome = "returned"
                /\ Len(calls[i].value) = a.days
                /\ \A k \in 1..Len(calls[i].value) :
                      calls[i].value[k] = a.initial_price

\* C17: simulate_interest_rates with days = 1 returns successfully a
\* sequence of length 1 that is the initial rate; for every days >= 1 it
\* returns `days` rates, the first being the initial rate.
C17_InterestRatesLength ==
    \A i \in CallsOf("simulate_interest_rates") :
        LET a == calls[i].args
        IN  /\ a.days = 1 =>
                  /\ calls[i].outcome = "returned"
                  /\ calls[i].value = <<a.initial_rate>>
            /\ a.days >= 1 =>
                  /\ calls[i].outcome = "returned"
                  /\ Len(calls[i].value) = a.days
                  /\ calls[i].value[1] = a.initial_rate

\* C18: for every order book with at least one bid and one ask,
\* calculate_market_liquidity returns infinity exactly when the best ask
\* equals the best bid, and otherwise the sum of all bid and ask volumes
\* divided by best ask minus best bid.
C18_LiquidityInfiniteOnlyAtZeroSpread ==
    \A i \in CallsOf("calculate_market_liquidity") :
        LET bids == calls[i].args.bids
            asks == calls[i].args.asks
        IN  (bids # << >> /\ asks # << >>) =>
                /\ calls[i].liquidity.inf <=> (asks[1][1] = bids[1][1])
                /\ asks[1][1] # bids[1][1] =>
                      calls[i].liquidity.value =
                          ((volume(bids) + volume(asks)) * 1000)
                              \div (asks[1][1] - bids[1][1])

\* C21: each evaluation of the interest-rate rule gives the reference
\* result: with inflation_rate > 0.04 the rate becomes rate + min(0.0025,
\* (inflation_rate - 0.02) * 0.1); otherwise with economic_growth < 0.01 it
\* becomes max(0.001, rate - min(0.0025, (0.02 - economic_growth) * 0.1));
\* otherwise it is unchanged.  One evaluation moves the rate by at most
\* 0.0025 and changes no other field.
C21_RuleReferenceResult ==
    (pc = "rule_done" /\ calls[1].day % 30 = 0) =>
        LET before == calls[1].args
            rate == before.interest_rate
            raise == Min(2500, (before.inflation_rate - 20000) \div 10)
            cut == Min(2500, (20000 - before.economic_growth) \div 10)
            reference ==
                IF before.inflation_rate > 40000 THEN rate + raise
                ELSE IF before.economic_growth < 10000
                THEN Max(1000, rate - cut)
                ELSE rate
        IN  /\ market_state.interest_rate = reference
            /\ Abs(market_state.interest_rate - rate) <= 2500
            /\ \A f \in DOMAIN market_state \ {"interest_rate"} :
                  market_state[f] = before[f]

\* the rule was evaluated on day 0 with inflation at 0.03, growth at -0.05
\* and the rate at 0.002: the cut of 0.0025 stopped at the floor 0.001
C21_Witness ==
    /\ pc = "rule_done"
    /\ calls[1].day = 0
    /\ calls[1].args.inflation_rate = 30000
    /\ calls[1].args.economic_growth = -50000
    /\ calls[1].args.interest_rate = 2000
    /\ market_state.interest_rate = 1000

\* the regulatory step changed nothing but MarketState
RegulatoryStepFrame ==
    /\ balance = [i \in Ids |->
                     IF Len(agents) = Len(FINANCIAL_ENTITIES)
                     THEN FINANCIAL_ENTITIES[i].initial_balance
                     ELSE FINANCIAL_ENTITIES[i + 1].initial_balance]
    /\ transaction_history = [i \in Ids |-> << >>]
    /\ transactions = << >>
    /\ events = << >>

\* C22 as stated: for every entity catalogue the rule is applied to the
\* day's MarketState on exactly the days d with d mod 30 = 0, and the
\* regulatory step of every other day leaves every field unchanged; the
\* cadence checks change no MarketState, balance, ledger or event log.
C22_RuleEvery30DaysAnyCatalogue ==
    pc = "regulatory_done" =>
        /\ market_state = IF calls[1].day % 30 = 0
                          THEN interest_rate_rule(calls[1].args)
                          ELSE calls[1].args
        /\ RegulatoryStepFrame

\* C22 amended: the rule is applied on exactly the days d with d mod 30 =
\* 0 of a run whose catalogue has an entity named as the central bank; on
\* every other day, and on every day of a catalogue without one, the
\* regulatory step leaves every MarketState field unchanged.  The cadence
\* checks change no MarketState, balance, ledger or event log.
C22_RuleEvery30DaysWithCentralBank ==
    pc = "regulatory_done" =>
        /\ market_state =
              IF /\ calls[1].day % 30 = 0
                 /\ \E i \in Ids : agents[i].name = "central_bank"
              THEN interest_rate_rule(calls[1].args)
              ELSE calls[1].args
        /\ RegulatoryStepFrame

\* on day 60, a stress-test day that is no reporting day, the rule raised
\* the rate of a catalogue with a central bank
C22_Witness ==
    /\ pc = "regulatory_done"
    /\ calls[1].day = 60
    /\ calls[1].stress_test
    /\ ~calls[1].report
    /\ \E i \in Ids : agents[i].name = "central_bank"
    /\ calls[1].args.inflation_rate = 45000
    /\ market_state.interest_rate = calls[1].args.interest_rate + 2500

\* C23: every element of a sequence simulate_interest_rates returns is >=
\* 0.001, for every initial rate (below 0.001 included), and each element
\* after the first is max(0.001, previous + mean_reversion *
\* (long_term_mean - previous) + volatility * noise) for a noise draw.
C23_InterestRatesFloored ==
    \A i \in CallsOf("simulate_interest_rates") :
        calls[i].outcome = "returned" =>
            LET a == calls[i].args
                rates == calls[i].value
            IN  /\ \A k \in 1..Len(rates) : rates[k] >= 1000
                /\ \A k \in 2..Len(rates) :
                      \E noise \in -2..2 :
                          rates[k] =
                              Max(1000,
                                  rates[k - 1]
                                  + (a.mean_reversion
                                     * (a.long_term_mean - rates[k - 1]))
                                        \div 100
                                  + a.volatility * noise)

\* the interaction step added at most min(10, floor(numEntities / 2))
\* transactions, each between two distinct entities, added none and moved
\* no balance with fewer than two entities, and went on to the next sub-step
InteractionStepAttempts ==
    pc = "execute_agent_interactions" =>
        /\ pc' = "update_asset_prices"
        /\ Len(transactions') - Len(transactions)
              <= Min(10, Len(agents) \div 2)
        /\ \A i \in (Len(transactions) + 1)..Len(transactions') :
              /\ transactions'[i].from # transactions'[i].to
              /\ transactions'[i].from \in Ids
              /\ transactions'[i].to \in Ids
        /\ Len(agents) < 2 =>
              /\ transactions' = transactions
              /\ balance' = balance
              /\ transaction_history' = transaction_history

ShockInsideSeries ==
    /\ pc = "shock_done"
    /\ calls[1].outcome = "returned"
    /\ calls[1].args.recovery_days >= 1
    /\ calls[1].args.recovery_days <= Len(calls[1].args.prices) - 1

\* the full shock at the index recovery_days before the end, the entries
\* before it as in the input, and the input series as it was
ShockApplied ==
    LET a == calls[1].args
        n == Len(a.prices)
        idx == n - a.recovery_days
    IN  /\ Len(calls[1].value) = n
        /\ calls[1].value[idx] =
              (a.prices[idx] * (1000 + a.shock_magnitude)) \div 1000
        /\ \A k \in 1..(idx - 1) : calls[1].value[k] = a.prices[k]
        /\ calls[1].prices = a.prices

\* C25 as stated: simulate_market_shock applies the full shock (1 +
\* shock_magnitude) at the index recovery_days before the series end,
\* leaves the entries before it equal to the input, does not modify the
\* input, and for every recovery_strength the last entry of the result
\* equals the last entry of the input.
C25_ShockFadesToZero ==
    ShockInsideSeries =>
        /\ ShockApplied
        /\ calls[1].value[Len(calls[1].value)]
              = calls[1].args.prices[Len(calls[1].args.prices)]

\* C25 amended: for 1 <= recovery_days <= len - 1 the full shock is applied
\* at the index recovery_days before the end, the entries before it equal
\* the input and the input is not modified; the entry k days after the
\* shock is the input's times 1 + shock_magnitude * (1 - min(1, k /
\* recovery_days * recovery_strength)), so the last entry is the input's
\* times 1 + shock_magnitude * (1 - min(1, recovery_strength)): it equals
\* the input's last entry when recovery_strength >= 1.
C25_ShockFadesByStrength ==
    ShockInsideSeries =>
        LET a == calls[1].args
            n == Len(a.prices)
            idx == n - a.recovery_days
            left(k) ==
                (a.shock_magnitude
                 * (1000 - Min(1000, (k * a.recovery_strength * 10)
                                         \div a.recovery_days))) \div 1000
        IN  /\ ShockApplied
            /\ \A i \in (idx + 1)..n :
                  calls[1].value[i] =
                      (a.prices[i] * (1000 + left(i - idx))) \div 1000
            /\ calls[1].value[n] =
                  (a.prices[n]
                   * (1000 + (a.shock_magnitude
                              * (1000 - Min(1000, a.recovery_strength * 10)))
                                 \div 1000)) \div 1000
            /\ a.recovery_strength >= 100 =>
                  calls[1].value[n] = a.prices[n]

\* a shock of -5% three days before the end of a six-day series with the
\* default strength 0.7: the last entry keeps 30% of the shock
C25_Witness ==
    /\ ShockInsideSeries
    /\ calls[1].args.prices = <<10000, 9900, 9800, 9700, 9600, 9500>>
    /\ calls[1].args.shock_magnitude = -50
    /\ calls[1].args.recovery_days = 3
    /\ calls[1].args.recovery_strength = 70
    /\ calls[1].value = <<10000, 9900, 9310, 9321, 9340, 9357>>

\* a step in which generate_price_series or simulate_interest_rates was
\* called with a seed left numpy's global generator as it found it
SeededCallLeavesGenerator ==
    (/\ pc = "library_api"
     /\ Len(calls') = Len(calls) + 1
     /\ calls'[Len(calls')].fn \in
            {"generate_price_series", "simulate_interest_rates"}
     /\ calls'[Len(calls')].args.random_seed # None) =>
        np_state' = np_state

\* C26: a call of generate_price_series or simulate_interest_rates with a
\* seed changes no state outside its return value: the random streams
\* consumed afterwards by the market-state update, by event and
\* interaction sampling and by other series generations are what they
\* would be without the call.
C26_SeededCallHasNoSideEffect == [][SeededCallLeavesGenerator]_vars

\* initialization left every configured asset class a series of exactly
\* simulation_days prices
SeriesPerAssetClass ==
    pc # "constructing" =>
        \A i \in 1..Len(config.asset_classes) :
            LET name == config.asset_classes[i].name
            IN  /\ name \in DOMAIN asset_prices
                /\ Len(asset_prices[name]) = simulation_days

\* the price-adjustment step of day d changed at most index d of each
\* series, and no other step changed a series
OnlyTodaysIndexAdjusted ==
    /\ DOMAIN asset_prices' = DOMAIN asset_prices
    /\ \A a \in DOMAIN asset_prices :
          /\ Len(asset_prices'[a]) = Len(asset_prices[a])
          /\ \A k \in 1..Len(asset_prices[a]) :
                asset_prices'[a][k] # asset_prices[a][k] =>
                    /\ pc = "update_asset_prices"
                    /\ k = current_day + 1

\* C27: at initialization every asset class gets a price series of exactly
\* simulation_days entries, so that on every day d index d is valid in
\* every series; the price-adjustment step of day d modifies only index d
\* of each series, each index is adjusted once over a run, and no series
\* changes length.
C27_SeriesLengthAndFrame ==
    /\ []SeriesPerAssetClass
    /\ [][pc # "constructing" => OnlyTodaysIndexAdjusted]_vars

\* the event step of a day: nothing changed, or one event was appended and
\* only sentiment, growth and volatility moved, as its category allows
EventStepFrame ==
    pc = "process_events" =>
        \/ /\ events' = events
           /\ market_state' = market_state
           /\ UNCHANGED <<balance, transaction_history, transactions>>
        \/ /\ Len(events') = Len(events) + 1
           /\ SubSeq(events', 1, Len(events)) = events
           /\ \A f \in {"interest_rate", "inflation_rate",
                         "liquidity_factor", "unemployment_rate"} :
                 market_state'[f] = market_state[f]
           /\ UNCHANGED <<balance, transaction_history, transactions>>
           /\ LET e == events'[Len(events')]
              IN  /\ e.type \in {"economic_news", "natural_disaster",
                                  "technology_breakthrough"} =>
                        market_state'.market_volatility
                            = market_state.market_volatility
                  /\ e.type \in {"political_event", "regulatory_change"} =>
                        market_state'.economic_growth
                            = market_state.economic_growth
                  /\ e.type = "regulatory_change" =>
                        market_state'.market_sentiment
                            = market_state.market_sentiment
                  /\ e.type = "natural_disaster" =>
                        /\ market_state'.market_sentiment
                              <= market_state.market_sentiment
                        /\ market_state'.economic_growth
                              <= market_state.economic_growth
                  /\ e.type = "technology_breakthrough" =>
                        market_state'.economic_growth
                            >= market_state.economic_growth

\* C28: the event step of a day on which no event fires leaves MarketState
\* and the event log unchanged; when an event fires it appends exactly one
\* event and changes only market_sentiment, economic_growth and
\* market_volatility (which of them depends on the category), never
\* interest_rate, inflation_rate, liquidity_factor, unemployment_rate, a
\* balance or the ledger; a natural disaster never raises sentiment or
\* growth and a technology breakthrough never lowers growth, whatever the
\* sign of the magnitude.
C28_EventStepFrame == [][EventStepFrame]_vars

\* a natural disaster of positive magnitude fired on a day whose market
\* had not moved, and sentiment and growth went down
C28_Witness ==
    /\ pc = "execute_regulatory_activities"
    /\ Len(events) = 1
    /\ events[1].type = "natural_disaster"
    /\ events[1].magnitude > 0
    /\ events[1].day = current_day
    /\ market_state.market_sentiment = -50000
    /\ market_state.economic_growth = 19500

\* what a step of the day loop does to balances and ledger: the sum of the
\* balances is kept, and a transaction the interaction step records has an
\* amount above 0 and of at most 1% of what its sender had before the step
\* (the step makes one attempt with three entities)
BalancesStep ==
    /\ SumOver(balance', Ids) = SumOver(balance, Ids)
    /\ \A i \in (Len(transactions) + 1)..Len(transactions') :
          /\ pc = "execute_agent_interactions"
          /\ transactions'[i].amount > 0
          /\ transactions'[i].amount * 100
                <= balance[transactions'[i].from]

\* no balance is negative, and the last transfer the day loop attempted
\* succeeded or failed on an amount of exactly 0
BalancesState ==
    /\ \A i \in Ids : balance[i] >= 0
    /\ (last_transfer.self # 0 /\ ~last_transfer.success) =>
          /\ last_transfer.message = "amount_must_be_positive"
          /\ last_transfer.amount = 0

\* C29: when all initial balances are >= 0, in every state of the day loop
\* every balance is >= 0, every amount in the ledger is > 0 and at most 1%
\* of the sender's balance just before the transfer, the sum of all
\* balances is its initial value, and no transfer the day loop attempts
\* fails with insufficient funds: the only failure is a drawn amount of 0.
C29_BalancesNonNegative ==
    /\ []BalancesState
    /\ [][BalancesStep]_vars

\* the central bank, starting with 100, paid its full 1% to the commercial
\* bank, which started with nothing; on the next day the commercial bank's
\* own transfer was drawn as 0 and failed
C29_Witness ==
    /\ pc = "completed"
    /\ balance[1] = 99
    /\ balance[3] = 1
    /\ Len(transactions) = 1
    /\ transactions[1].amount = 1
    /\ last_transfer.self = 3
    /\ ~last_transfer.success

\* every price of every series is above 0
PricesPositive ==
    \A a \in DOMAIN asset_prices :
        \A k \in 1..Len(asset_prices[a]) : asset_prices[a][k] > 0

\* the factors the price adjustment would apply in this market state:
\* 1 + 0.01 * sentiment within [0.99, 1.01] and 1 + 0.1 * (volatility -
\* 0.15) of at least 0.986 (in ten-thousandths)
FactorsPositive ==
    pc = "update_asset_prices" =>
        /\ 10000 + market_state.market_sentiment \div 10000 >= 9900
        /\ 10000 + market_state.market_sentiment \div 10000 <= 10100
        /\ 10000 + (market_state.market_volatility - 150000) \div 1000
              >= 9860

\* the price adjustment left a price above 0 wherever it found one
AdjustmentKeepsPositive ==
    pc = "update_asset_prices" =>
        \A a \in DOMAIN asset_prices :
            \A k \in 1..Len(asset_prices[a]) :
                asset_prices[a][k] > 0 => asset_prices'[a][k] > 0

\* C30: the daily price adjustment multiplies the day's price by a factor
\* above 0 in every reachable MarketState (sentiment factor within [0.99,
\* 1.01], volatility factor at least 0.986 because volatility >= 0.01), so
\* it never turns a price above 0 into one that is not: when every
\* generated price is above 0, every price stays above 0 through the run.
C30_PricesStayPositive ==
    /\ []FactorsPositive
    /\ [][AdjustmentKeepsPositive]_vars
    /\ []PricesPositive

\* the day's price was adjusted at the sentiment floor -1.0 and the
\* volatility floor 0.01, by 0.99 * 0.986, and is above 0
C30_Witness ==
    /\ pc = "perform_settlement"
    /\ market_state.market_sentiment = -1000000
    /\ market_state.market_volatility = 10000
    /\ "stocks" \in DOMAIN asset_prices
    /\ asset_prices["stocks"][current_day + 1] > 0
    /\ asset_prices["stocks"][current_day + 1] < 9800

====
